---- MODULE Spec2Model ----
(***************************************************************************)
(* The directory-tree poster of canvas-illustrator (design3): the walk of  *)
(* the parsed directory map into nodes and edges, the parent/child build,  *)
(* the three layouts (Cartesian, radial, scatter) and the bounds, as       *)
(* MakePoster computes them.                                               *)
(*                                                                         *)
(* Numbers are fixed point: the normalised coordinate 1.0 is One, angles   *)
(* are whole degrees, and a JavaScript undefined / NaN number is NaN.      *)
(***************************************************************************)
EXTENDS Integers, Sequences, FiniteSets, TLC

VARIABLES
    variant,            \* which design file is loaded: its MakePoster
    MaxNodes,           \* the node cap of that file
    MaxLevels,          \* the depth cap (read by the scatter walk only)
    catalogue,          \* the documents directory_map.json may hold
    DirectoryMap,       \* the parsed document, a JSON value
    TreeNodes,          \* the stored node list
    TreeEdges,          \* the stored edge list
    LayoutBounds,       \* the stored bounding box
    TruncatedMessage,   \* the stored message, or NullMsg
    LoadStatus,         \* "loading", "parsing", "ready" or "error"
    Camera,             \* the camera: x, y in pixels, z in thousandths
    shiftKey,           \* the shift key is held
    keyEvents,          \* how many key presses have been handled
    drawn,              \* the canvas calls of the last UpdateRender
    inflight,           \* how many fetches have not been answered yet
    pending,            \* the texts whose deferred parse is still to run
    buttonDown,         \* the mouse button is held
    handlers,           \* the mousemove handlers bound on the window
    mouseEvents,        \* how many mouse events have been handled
    started,            \* the page's ready handlers have run
    loads,              \* how many deferred parse callbacks have run
    Squares,            \* design1: the background squares
    Arcs,               \* design1: the quarter arcs drawn so far
    cursor,             \* design1: the cell the turtle is in
    dir,                \* design1: the turtle's heading, in quarter turns
    onThe,              \* design1: the side the turtle is on
    calls               \* design1: the calls still to run, innermost first

vars == <<variant, MaxNodes, MaxLevels, catalogue, DirectoryMap, TreeNodes,
          TreeEdges, LayoutBounds, TruncatedMessage, LoadStatus, Camera,
          shiftKey, keyEvents, drawn, inflight, pending, buttonDown,
          handlers, mouseEvents, started, loads, Squares, Arcs, cursor,
          dir, onThe, calls>>

\* the state of the mouse handlers
mouseVars == <<buttonDown, handlers, mouseEvents>>

\* the state of the design1 file
turtleVars == <<Squares, Arcs, cursor, dir, onThe, calls>>

---------------------------------------------------------------------------
(* Bounds of the model *)

\* the most keys (nodes) a generated document holds
MaxKeys == 4
\* the deepest setting of MaxLevels
MaxLevelCap == 2

\* the settings of MaxNodes: below and above the size of a document
CapChoices == {1, 2, MaxKeys + 2}
\* the settings of MaxLevels
LevelChoices == {1, MaxLevelCap}

\* the keys of the generated documents: the empty key and an ordinary one
Keys == {"", "a"}

---------------------------------------------------------------------------
(* JSON values: null, a scalar, or an object whose entries are in the      *)
(* enumeration order of Object.keys                                        *)

JNull == [kind |-> "null", entries |-> <<>>]
JNum == [kind |-> "num", entries |-> <<>>]
JObj(es) == [kind |-> "obj", entries |-> es]
Entry(k, v) == [key |-> k, val |-> v]

RECURSIVE ForestsOf(_, _)
RECURSIVE ValuesOf(_)
\* the entry lists holding exactly n keys in all, sibling keys distinct and
\* none of them in avoid
ForestsOf(n, avoid) ==
    IF n = 0 THEN {<<>>}
    ELSE UNION { UNION { { <<Entry(k, v)>> \o rest :
                             v \in ValuesOf(m),
                             rest \in ForestsOf(n - 1 - m, avoid \cup {k}) }
                         : m \in 0..(n - 1) }
                 : k \in Keys \ avoid }
\* the values holding exactly m keys below them
ValuesOf(m) ==
    IF m = 0 THEN {JNull, JObj(<<>>)}
    ELSE {JObj(f) : f \in ForestsOf(m, {})}

\* {"a": {"b": null, "c": null}}
ScenarioDoc ==
    JObj(<<Entry("a", JObj(<<Entry("b", JNull), Entry("c", JNull)>>))>>)
\* {"a/a": null, "a": {"a": null}}
SlashDoc ==
    JObj(<<Entry("a/a", JNull), Entry("a", JObj(<<Entry("a", JNull)>>))>>)
\* {"a": {"b": null, "c": null}, "a/b": null}
SlashSiblingDoc ==
    JObj(<<Entry("a", JObj(<<Entry("b", JNull), Entry("c", JNull)>>)),
           Entry("a/b", JNull)>>)

\* {"a": 1}
NumberDoc == JObj(<<Entry("a", JNum)>>)
\* {"": {"a": {"b": {}}}, "a": {"b": {"c": null}}}
RepairDoc ==
    JObj(<<Entry("", JObj(<<Entry("a", JObj(<<Entry("b", JObj(<<>>))>>))>>)),
           Entry("a", JObj(<<Entry("b", JObj(<<Entry("c", JNull)>>))>>))>>)

Documents ==
    {JNull} \cup {JObj(f) : f \in UNION {ForestsOf(n, {}) : n \in 0..MaxKeys}}
            \cup {ScenarioDoc, SlashDoc, SlashSiblingDoc, NumberDoc, RepairDoc}

---------------------------------------------------------------------------
(* Numbers *)

\* the fixed-point value of 1.0 (LayoutBounds starts as 0..1)
One == 12800
\* the value an arithmetic operation on undefined yields
NaN == -1000000000

Min(a, b) == IF a <= b THEN a ELSE b
Max(a, b) == IF a >= b THEN a ELSE b

\* JavaScript arithmetic on numbers that may be undefined or NaN
JsAdd(a, b) == IF a = NaN \/ b = NaN THEN NaN ELSE a + b
JsSub(a, b) == IF a = NaN \/ b = NaN THEN NaN ELSE a - b
JsMin(a, b) == IF a = NaN \/ b = NaN THEN NaN ELSE Min(a, b)
JsMax(a, b) == IF a = NaN \/ b = NaN THEN NaN ELSE Max(a, b)
\* a >= b and a <= b, false when either is NaN
JsGeq(a, b) == a # NaN /\ b # NaN /\ a >= b
JsLeq(a, b) == a # NaN /\ b # NaN /\ a <= b
\* n.radius || 0
OrZero(a) == IF a = NaN THEN 0 ELSE a

---------------------------------------------------------------------------
(* STEP 1: the walk *)

\* the parentId of the root call (null)
NullId == "<null>"
\* the value of TruncatedMessage when no message is set (null)
NullMsg == "<null>"

\* a variable that has been declared and not assigned
Undefined == "undefined"

\* JavaScript truthiness of a string or null
Truthy(s) == s # NullId /\ s # ""

\* a MakePoster that goes on from the stored scene instead of empty lists
WalkStartFromScene ==
    [nodeList |-> TreeNodes, edgeList |-> TreeEdges,
     nodeCount |-> Len(TreeNodes)]

\* var nodeList = []; var edgeList = []; var nodeCount = 0;
WalkStart == [nodeList |-> <<>>, edgeList |-> <<>>, nodeCount |-> 0]

\* the depth test of the walk: only the scatter file has one
DepthCapped(depth) == variant = "scatter" /\ depth >= MaxLevels

\* val !== null && typeof val === "object"
IsDir(val) == val.kind = "obj"

\* var id = path ? path + "/" + key : key
MakeId(path, key) == IF Truthy(path) THEN path \o "/" \o key ELSE key

\* if (parentId) edgeList.push({ from: parentId, to: id })
PushEdge(edgeList, parentId, id) ==
    IF Truthy(parentId) THEN Append(edgeList, [from |-> parentId, to |-> id])
    ELSE edgeList

NewNode(id, key, isDir, depth, index, count) ==
    [id |-> id, name |-> key, type |-> IF isDir THEN "dir" ELSE "file",
     depth |-> depth, indexInParent |-> index, siblingCount |-> count,
     children |-> <<>>, x |-> NaN, y |-> NaN, radius |-> NaN,
     r |-> NaN, angle |-> NaN]

\* a cap test that lets one node too many through
CapReachedLate(st) == st.nodeCount > MaxNodes

\* if (nodeCount >= MaxNodes) return;
CapReached(st) == st.nodeCount >= MaxNodes

RECURSIVE walk(_, _, _, _, _)
RECURSIVE walkKeys(_, _, _, _, _, _)
walk(obj, parentId, depth, path, st) ==
    IF CapReached(st) THEN st
    ELSE IF DepthCapped(depth) THEN st
    ELSE walkKeys(obj, 1, parentId, depth, path, st)
\* keys.forEach from the i-th key on
walkKeys(obj, i, parentId, depth, path, st) ==
    IF i > Len(obj.entries) THEN st
    ELSE IF CapReached(st)
         THEN walkKeys(obj, i + 1, parentId, depth, path, st)
    ELSE LET key == obj.entries[i].key
             val == obj.entries[i].val
             id == MakeId(path, key)
             isDir == IsDir(val)
             st1 == [nodeList |-> Append(st.nodeList,
                                    NewNode(id, key, isDir, depth, i - 1,
                                            Len(obj.entries))),
                     edgeList |-> PushEdge(st.edgeList, parentId, id),
                     nodeCount |-> st.nodeCount + 1]
             st2 == IF isDir THEN walk(val, id, depth + 1, id, st1) ELSE st1
         IN walkKeys(obj, i + 1, parentId, depth, path, st2)

---------------------------------------------------------------------------
(* STEP 2: parent/child relationships.  A node is named by its index in    *)
(* the node list; children holds indices.                                  *)

\* nodeById[id] after the forEach: the last node carrying that id
nodeById(nodeList, id) ==
    CHOOSE i \in 1..Len(nodeList) :
        /\ nodeList[i].id = id
        /\ \A j \in (i + 1)..Len(nodeList) : nodeList[j].id # id

RECURSIVE buildChildren(_, _, _)
\* edgeList.forEach from the k-th edge on
buildChildren(nodeList, edgeList, k) ==
    IF k > Len(edgeList) THEN nodeList
    ELSE LET p == nodeById(nodeList, edgeList[k].from)
             c == nodeById(nodeList, edgeList[k].to)
         IN buildChildren(
                [nodeList EXCEPT ![p].children = Append(@, c)],
                edgeList, k + 1)

RECURSIVE maxDepthFrom(_, _)
maxDepthFrom(nodeList, i) ==
    IF i > Len(nodeList) THEN 0
    ELSE Max(nodeList[i].depth, maxDepthFrom(nodeList, i + 1))
\* var maxDepth = 0; nodeList.forEach(... Math.max ...)
maxDepthOf(nodeList) == maxDepthFrom(nodeList, 1)

RECURSIVE rootsFrom(_, _)
rootsFrom(nodeList, i) ==
    IF i > Len(nodeList) THEN <<>>
    ELSE (IF nodeList[i].depth = 0 THEN <<i>> ELSE <<>>)
         \o rootsFrom(nodeList, i + 1)
\* nodeList.filter(n => n.depth === 0)
rootsOf(nodeList) == rootsFrom(nodeList, 1)

\* the minimum (Math.min) and maximum (Math.max) of a list of numbers, one
\* per node, from the i-th on, starting from acc
RECURSIVE foldMin(_, _, _)
foldMin(values, i, acc) ==
    IF i > Len(values) THEN acc
    ELSE foldMin(values, i + 1,
                 IF i = 1 THEN values[1] ELSE JsMin(acc, values[i]))
RECURSIVE foldMax(_, _, _)
foldMax(values, i, acc) ==
    IF i > Len(values) THEN acc
    ELSE foldMax(values, i + 1,
                 IF i = 1 THEN values[1] ELSE JsMax(acc, values[i]))
\* n.x and n.y of the nodes of a list, in its order
XsOf(nodeList) == [k \in 1..Len(nodeList) |-> nodeList[k].x]
YsOf(nodeList) == [k \in 1..Len(nodeList) |-> nodeList[k].y]

---------------------------------------------------------------------------
(* The Cartesian layout (design3/index.js, second MakePoster) *)

\* var baseSpacing = 0.015
baseSpacing == 192

\* floor(100 * sqrt(nodeCount / 500))
SqrtHundredths(nodeCount) ==
    CHOOSE k \in 0..(20 * nodeCount) :
        k * k <= 20 * nodeCount /\ (k + 1) * (k + 1) > 20 * nodeCount

\* Math.max(0.015, baseSpacing * Math.max(1, Math.sqrt(nodeCount / 500)))
minSpacingOf(nodeCount) ==
    IF nodeCount <= 500 THEN baseSpacing
    ELSE Max(baseSpacing, (baseSpacing * SqrtHundredths(nodeCount)) \div 100)

\* a yStep that divides by maxDepth whatever it is: 1 / 0 is no step
yStepOfUnguarded(maxDepth) ==
    IF maxDepth > 0 THEN One \div maxDepth ELSE NaN

\* var yStep = maxDepth > 0 ? 1 / maxDepth : 1
yStepOf(maxDepth) == IF maxDepth > 0 THEN One \div maxDepth ELSE One

\* for (j = from; j < children.length; j++) children[j].x += shift
RECURSIVE shiftSiblings(_, _, _, _)
shiftSiblings(nodes, kids, j, shift) ==
    IF j > Len(kids) THEN nodes
    ELSE shiftSiblings([nodes EXCEPT ![kids[j]].x = @ + shift],
                       kids, j + 1, shift)

\* the sibling repair loop of layout, from pair (i, i+1) on
RECURSIVE repairSiblings(_, _, _, _)
repairSiblings(st, kids, i, minSpacing) ==
    IF i >= Len(kids) THEN st
    ELSE LET spacing == st.nodes[kids[i + 1]].x - st.nodes[kids[i]].x
         IN IF spacing < minSpacing
            THEN LET shifted == shiftSiblings(st.nodes, kids, i + 1,
                                              minSpacing - spacing)
                 IN repairSiblings(
                        [nodes |-> shifted,
                         xCursor |-> Max(st.xCursor,
                                         shifted[kids[Len(kids)]].x
                                         + minSpacing)],
                        kids, i + 1, minSpacing)
            ELSE repairSiblings(st, kids, i + 1, minSpacing)

RECURSIVE layoutCartesian(_, _, _, _)
RECURSIVE layoutChildrenCartesian(_, _, _, _, _)
layoutCartesian(st, n, yStep, minSpacing) ==
    LET st1 == [st EXCEPT !.nodes[n].y = st.nodes[n].depth * yStep]
        kids == st.nodes[n].children
    IN IF Len(kids) = 0
       THEN [nodes |-> [st1.nodes EXCEPT ![n].x = st1.xCursor],
             xCursor |-> st1.xCursor + minSpacing]
       ELSE LET st2 == layoutChildrenCartesian(st1, kids, 1, yStep, minSpacing)
                st3 == repairSiblings(st2, kids, 1, minSpacing)
                childXMin == st3.nodes[kids[1]].x
                childXMax == st3.nodes[kids[Len(kids)]].x
            IN [st3 EXCEPT !.nodes[n].x = (childXMin + childXMax) \div 2]
\* children.forEach(layout), and roots.forEach(layout)
layoutChildrenCartesian(st, kids, k, yStep, minSpacing) ==
    IF k > Len(kids) THEN st
    ELSE layoutChildrenCartesian(
             layoutCartesian(st, kids[k], yStep, minSpacing),
             kids, k + 1, yStep, minSpacing)

\* roots.sort(function(a, b) { return a.x - b.x; }): a stable sort
RECURSIVE insertByX(_, _, _)
insertByX(nodes, sorted, n) ==
    IF sorted = <<>> THEN <<n>>
    ELSE IF nodes[sorted[Len(sorted)]].x <= nodes[n].x
         THEN Append(sorted, n)
         ELSE Append(insertByX(nodes, SubSeq(sorted, 1, Len(sorted) - 1), n),
                     sorted[Len(sorted)])
RECURSIVE sortByX(_, _, _)
sortByX(nodes, seq, k) ==
    IF k = 0 THEN <<>>
    ELSE insertByX(nodes, sortByX(nodes, seq, k - 1), seq[k])

RECURSIVE shiftSubtree(_, _, _)
RECURSIVE shiftSubtrees(_, _, _, _)
shiftSubtree(nodes, n, shiftAmount) ==
    shiftSubtrees([nodes EXCEPT ![n].x = @ + shiftAmount],
                  nodes[n].children, 1, shiftAmount)
\* node.children.forEach(shiftSubtree), and the loop over roots[j]
shiftSubtrees(nodes, seq, j, shiftAmount) ==
    IF j > Len(seq) THEN nodes
    ELSE shiftSubtrees(shiftSubtree(nodes, seq[j], shiftAmount),
                       seq, j + 1, shiftAmount)

\* STEP 6: the repair loop over the sorted roots, from pair (i, i+1) on
RECURSIVE repairRoots(_, _, _, _)
repairRoots(nodes, roots, i, minSpacing) ==
    IF i >= Len(roots) THEN nodes
    ELSE LET spacing == nodes[roots[i + 1]].x - nodes[roots[i]].x
         IN IF spacing < minSpacing
            THEN repairRoots(shiftSubtrees(nodes, roots, i + 1,
                                           minSpacing - spacing),
                             roots, i + 1, minSpacing)
            ELSE repairRoots(nodes, roots, i + 1, minSpacing)

\* var xRange = xMax - xMin || 1
xRangeOf(xMin, xMax) ==
    LET d == JsSub(xMax, xMin) IN IF d = NaN \/ d = 0 THEN One ELSE d

\* n.x = (n.x - xMin) / xRange
normalizeX(x, xMin, xRange) ==
    IF x = NaN \/ xMin = NaN THEN NaN ELSE ((x - xMin) * One) \div xRange

\* STEP 5 and 6: the positions before normalisation
placeCartesian(nodeList) ==
    LET minSpacing == minSpacingOf(Len(nodeList))
        yStep == yStepOf(maxDepthOf(nodeList))
        roots == rootsOf(nodeList)
        laid == layoutChildrenCartesian([nodes |-> nodeList, xCursor |-> 0],
                                        roots, 1, yStep, minSpacing)
        sorted == sortByX(laid.nodes, roots, Len(roots))
    IN repairRoots(laid.nodes, sorted, 1, minSpacing)

\* STEP 7: normalise x and set the bounds
boundsCartesian(nodeList, placed) ==
    LET minSpacing == minSpacingOf(Len(nodeList))
        xMin == foldMin(XsOf(placed), 1, 0)
        xMax == foldMax(XsOf(placed), 1, 0)
        xRange == xRangeOf(xMin, xMax)
        normalizedMinSpacing == (minSpacing * One) \div xRange
        margin == Max(One \div 10, normalizedMinSpacing * 3)
    IN [nodes |-> [i \in 1..Len(placed) |->
                     [placed[i] EXCEPT !.x = normalizeX(@, xMin, xRange)]],
        bounds |-> [xMin |-> -margin, xMax |-> One + margin,
                    yMin |-> -margin, yMax |-> One + margin]]

makeCartesian(nodeList) == boundsCartesian(nodeList, placeCartesian(nodeList))

---------------------------------------------------------------------------
(* Trigonometry in whole degrees; a cosine is scaled by TrigScale *)

TrigScale == 10000

CosTable ==
    <<10000, 9998, 9994, 9986, 9976, 9962, 9945, 9925, 9903, 9877,
       9848, 9816, 9781, 9744, 9703, 9659, 9613, 9563, 9511, 9455,
       9397, 9336, 9272, 9205, 9135, 9063, 8988, 8910, 8829, 8746,
       8660, 8572, 8480, 8387, 8290, 8192, 8090, 7986, 7880, 7771,
       7660, 7547, 7431, 7314, 7193, 7071, 6947, 6820, 6691, 6561,
       6428, 6293, 6157, 6018, 5878, 5736, 5592, 5446, 5299, 5150,
       5000, 4848, 4695, 4540, 4384, 4226, 4067, 3907, 3746, 3584,
       3420, 3256, 3090, 2924, 2756, 2588, 2419, 2250, 2079, 1908,
       1736, 1564, 1392, 1219, 1045, 872, 698, 523, 349, 175,
       0>>

\* Math.cos and Math.sin of an angle in degrees
Cos(deg) ==
    LET d == deg % 360
    IN IF d <= 90 THEN CosTable[d + 1]
       ELSE IF d <= 180 THEN -CosTable[180 - d + 1]
       ELSE IF d <= 270 THEN -CosTable[d - 180 + 1]
       ELSE CosTable[360 - d + 1]
Sin(deg) == Cos(deg - 90)

\* the product of a length and a cosine, rounded to the nearest unit
TimesTrig(len, c) ==
    LET p == len * c
    IN IF p >= 0 THEN (p + TrigScale \div 2) \div TrigScale
       ELSE -((TrigScale \div 2 - p) \div TrigScale)

\* Math.atan2(sy, sx) to the nearest degree, in -180..180; 0 for (0, 0).
\* The angle of (|sx|, |sy|) is found in 0..90 and mirrored into the
\* quadrant of (sx, sy).
Abs(v) == IF v < 0 THEN -v ELSE v
atan2Base(ay, ax) ==
    LET floorDeg == Cardinality({d \in 1..90 :
                                   Cos(d) * ay - Sin(d) * ax >= 0})
        along(d) == ax * Cos(d) + ay * Sin(d)
    IN IF floorDeg < 90 /\ along(floorDeg + 1) > along(floorDeg)
       THEN floorDeg + 1 ELSE floorDeg
atan2(sy, sx) ==
    IF sx = 0 /\ sy = 0 THEN 0
    ELSE LET base == atan2Base(Abs(sy), Abs(sx))
         IN IF sx >= 0 THEN (IF sy >= 0 THEN base ELSE -base)
            ELSE (IF sy >= 0 THEN 180 - base ELSE base - 180)

---------------------------------------------------------------------------
(* The radial layout *)

\* var radiusMax = 0.45
radiusMax == 5760
\* the centre 0.5 of the polar-to-Cartesian conversion
Half == 6400
\* var margin = 0.05
margin == 640
\* 2 * Math.PI, in degrees
TwoPi == 360

\* var radiusStep = maxDepth > 0 ? radiusMax / maxDepth : radiusMax
radiusStepOf(maxDepth) ==
    IF maxDepth > 0 THEN radiusMax \div maxDepth ELSE radiusMax

\* Math.max(1, leaves.length), leaves the nodes without children
leafCountOf(nodeList) ==
    Max(1, Cardinality({i \in 1..Len(nodeList) :
                           Len(nodeList[i].children) = 0}))

\* the sums sx and sy over node.children, from the k-th child on
RECURSIVE sumCos(_, _, _)
sumCos(nodes, kids, k) ==
    IF k > Len(kids) THEN 0
    ELSE Cos(nodes[kids[k]].angle) + sumCos(nodes, kids, k + 1)
RECURSIVE sumSin(_, _, _)
sumSin(nodes, kids, k) ==
    IF k > Len(kids) THEN 0
    ELSE Sin(nodes[kids[k]].angle) + sumSin(nodes, kids, k + 1)

RECURSIVE layoutRadial(_, _, _, _)
RECURSIVE layoutChildrenRadial(_, _, _, _, _)
layoutRadial(st, n, radiusStep, angleStep) ==
    LET st1 == [st EXCEPT !.nodes[n].r = st.nodes[n].depth * radiusStep]
        kids == st.nodes[n].children
    IN IF Len(kids) = 0
       THEN [nodes |-> [st1.nodes EXCEPT ![n].angle = st1.angleCursor],
             angleCursor |-> st1.angleCursor + angleStep]
       ELSE LET st2 == layoutChildrenRadial(st1, kids, 1, radiusStep, angleStep)
            IN [st2 EXCEPT !.nodes[n].angle =
                    atan2(sumSin(st2.nodes, kids, 1),
                          sumCos(st2.nodes, kids, 1))]
layoutChildrenRadial(st, kids, k, radiusStep, angleStep) ==
    IF k > Len(kids) THEN st
    ELSE layoutChildrenRadial(
             layoutRadial(st, kids[k], radiusStep, angleStep),
             kids, k + 1, radiusStep, angleStep)

\* 0.5 + (n.r * Math.cos(n.angle)), and the same with Math.sin
polarX(n) ==
    IF n.r = NaN \/ n.angle = NaN THEN NaN
    ELSE Half + TimesTrig(n.r, Cos(n.angle))
polarY(n) ==
    IF n.r = NaN \/ n.angle = NaN THEN NaN
    ELSE Half + TimesTrig(n.r, Sin(n.angle))

\* STEP 3 and 4: radius and angle of every node reached from a root
placeRadial(nodeList) ==
    layoutChildrenRadial([nodes |-> nodeList, angleCursor |-> 0],
                         rootsOf(nodeList), 1,
                         radiusStepOf(maxDepthOf(nodeList)),
                         TwoPi \div leafCountOf(nodeList)).nodes

\* STEP 5: polar to normalised coordinates, and the bounds
boundsRadial(placed) ==
    LET nodes == [i \in 1..Len(placed) |->
                    [placed[i] EXCEPT !.x = polarX(placed[i]),
                                      !.y = polarY(placed[i])]]
    IN [nodes |-> nodes,
        bounds |-> [xMin |-> JsSub(foldMin(XsOf(nodes), 1, 0), margin),
                    xMax |-> JsAdd(foldMax(XsOf(nodes), 1, 0), margin),
                    yMin |-> JsSub(foldMin(YsOf(nodes), 1, 0), margin),
                    yMax |-> JsAdd(foldMax(YsOf(nodes), 1, 0), margin)]]

makeRadial(nodeList) == boundsRadial(placeRadial(nodeList))

---------------------------------------------------------------------------
(* The scatter layout (design3/index.js, first MakePoster) *)

\* var baseRadius = 0.08
baseRadius == 1024
\* var radiusScale = 0.65, in hundredths
radiusScale == 65

\* the directions Math.random() * Math.PI * 2 is drawn from
Angles == {0, 90, 180, 270}

\* baseRadius * Math.pow(radiusScale, depth)
RECURSIVE radiusOf(_)
radiusOf(depth) ==
    IF depth = 0 THEN baseRadius
    ELSE (radiusOf(depth - 1) * radiusScale) \div 100

\* how many times layout draws Math.random() below the given children
RECURSIVE drawsBelow(_, _, _)
drawsBelow(nodes, kids, k) ==
    IF k > Len(kids) THEN 0
    ELSE 1 + drawsBelow(nodes, nodes[kids[k]].children, 1)
           + drawsBelow(nodes, kids, k + 1)
RECURSIVE drawsOfRoots(_, _, _)
drawsOfRoots(nodes, roots, k) ==
    IF k > Len(roots) THEN 0
    ELSE drawsBelow(nodes, nodes[roots[k]].children, 1)
         + drawsOfRoots(nodes, roots, k + 1)
drawsOf(nodeList) == drawsOfRoots(nodeList, rootsOf(nodeList), 1)

\* layout(children, parentX, parentY, parentRadius), from the k-th child
\* on; rnd is the sequence of angles Math.random() yields
RECURSIVE layoutScatter(_, _, _, _, _, _, _)
layoutScatter(st, kids, k, parentX, parentY, parentRadius, rnd) ==
    IF k > Len(kids) THEN st
    ELSE LET c == kids[k]
             radius == radiusOf(st.nodes[c].depth)
             childAngle == rnd[st.drawn + 1]
             distanceToChild == parentRadius + radius
             x == parentX + TimesTrig(distanceToChild, Cos(childAngle))
             y == parentY + TimesTrig(distanceToChild, Sin(childAngle))
             st1 == [nodes |-> [st.nodes EXCEPT ![c].radius = radius,
                                                ![c].x = x, ![c].y = y],
                     drawn |-> st.drawn + 1]
             st2 == layoutScatter(st1, st.nodes[c].children, 1,
                                  x, y, radius, rnd)
         IN layoutScatter(st2, kids, k + 1,
                          parentX, parentY, parentRadius, rnd)

\* roots.forEach: the root at the centre, then its children
RECURSIVE layoutRootsScatter(_, _, _, _)
layoutRootsScatter(st, roots, k, rnd) ==
    IF k > Len(roots) THEN st
    ELSE LET root == roots[k]
             st1 == [st EXCEPT !.nodes[root].x = Half,
                               !.nodes[root].y = Half,
                               !.nodes[root].radius = baseRadius]
         IN layoutRootsScatter(
                layoutScatter(st1, st1.nodes[root].children, 1,
                              Half, Half, baseRadius, rnd),
                roots, k + 1, rnd)

placeScatter(nodeList, rnd) ==
    layoutRootsScatter([nodes |-> nodeList, drawn |-> 0],
                       rootsOf(nodeList), 1, rnd).nodes

\* n.x - r, n.x + r, n.y - r, n.y + r with r = n.radius || 0
DiscLeft(n) == JsSub(n.x, OrZero(n.radius))
DiscRight(n) == JsAdd(n.x, OrZero(n.radius))
DiscTop(n) == JsSub(n.y, OrZero(n.radius))
DiscBottom(n) == JsAdd(n.y, OrZero(n.radius))

\* STEP 5: the bounds over the discs
boundsScatter(placed) ==
    LET K == 1..Len(placed)
        lefts == [k \in K |-> DiscLeft(placed[k])]
        rights == [k \in K |-> DiscRight(placed[k])]
        tops == [k \in K |-> DiscTop(placed[k])]
        bottoms == [k \in K |-> DiscBottom(placed[k])]
    IN [nodes |-> placed,
        bounds |-> [xMin |-> JsSub(foldMin(lefts, 1, 0), margin),
                    xMax |-> JsAdd(foldMax(rights, 1, 0), margin),
                    yMin |-> JsSub(foldMin(tops, 1, 0), margin),
                    yMax |-> JsAdd(foldMax(bottoms, 1, 0), margin)]]

makeScatter(nodeList, rnd) == boundsScatter(placeScatter(nodeList, rnd))

---------------------------------------------------------------------------
(* MakePoster *)

Variants == {"cartesian", "radial", "scatter"}

\* the node list after STEP 1 and STEP 2
builtNodes(doc) ==
    LET w == walk(doc, NullId, 0, "", WalkStart)
    IN buildChildren(w.nodeList, w.edgeList, 1)

\* the sequences of n angles one run of MakePoster may draw: from any
\* direction on, the same direction again or the next one round the circle
AngleSequences(n) ==
    {[i \in 1..n |-> (first + turn * (i - 1)) % TwoPi] :
        first \in Angles, turn \in {0, 90}}

RandomDraws(doc) ==
    IF variant = "scatter" /\ doc.kind = "obj"
    THEN AngleSequences(drawsOf(builtNodes(doc)))
    ELSE {<<>>}

\* TruncatedMessage = nodeCount >= MaxNodes ? "Showing first ..." : null
messageOf(nodeCount) ==
    IF nodeCount >= MaxNodes
    THEN "Showing first " \o ToString(MaxNodes) \o " nodes"
    ELSE NullMsg

\* a reset that also puts LayoutBounds back to its initial value
resetSceneAndBounds ==
    [TreeNodes |-> <<>>, TreeEdges |-> <<>>, TruncatedMessage |-> NullMsg,
     LayoutBounds |-> [xMin |-> 0, xMax |-> One, yMin |-> 0, yMax |-> One]]

\* the globals as the reset at the top of MakePoster leaves them
resetScene ==
    [TreeNodes |-> <<>>, TreeEdges |-> <<>>, TruncatedMessage |-> NullMsg,
     LayoutBounds |-> LayoutBounds]

\* the globals after MakePoster() has run on document doc
MakePoster(doc, rnd) ==
    IF doc.kind = "null" THEN resetScene
    ELSE LET w == walk(doc, NullId, 0, "", WalkStart)
         IN IF Len(w.nodeList) = 0 THEN resetScene
            ELSE LET nodeList == buildChildren(w.nodeList, w.edgeList, 1)
                     laid == CASE variant = "cartesian" ->
                                      makeCartesian(nodeList)
                               [] variant = "radial" -> makeRadial(nodeList)
                               [] variant = "scatter" ->
                                      makeScatter(nodeList, rnd)
                 IN [TreeNodes |-> laid.nodes,
                     TreeEdges |-> w.edgeList,
                     TruncatedMessage |-> messageOf(w.nodeCount),
                     LayoutBounds |-> laid.bounds]

\* the assignment of MakePoster's results to the globals
Store(p) ==
    /\ TreeNodes' = p.TreeNodes
    /\ TreeEdges' = p.TreeEdges
    /\ TruncatedMessage' = p.TruncatedMessage
    /\ LayoutBounds' = p.LayoutBounds

---------------------------------------------------------------------------
(* Rendering: what UpdateRender puts on the back buffer, as the list of    *)
(* canvas calls in the order they are made.  Lengths on the canvas are     *)
(* whole pixels; Camera.z is in thousandths.                               *)

\* CanvasWidth of a canvas shown at its own size: ratioX * scale, with
\* the loader's ratioX = 2 and scale = 400
CanvasWidth == 800
\* CanvasHandle.height = ratioY * scale, with ratioY = 2
CanvasHeight == 800
\* the fixed-point value of Camera.z = 1
ZoomOne == 1000

\* the colour of a call that takes none from depthToColor
NoColour == [r |-> 0, g |-> 0, b |-> 0]
\* the text of a call that writes none
NoText == "<none>"

\* the canvas calls
FillRect(x, y, w, h) ==
    [op |-> "fillRect", x |-> x, y |-> y, x2 |-> w, y2 |-> h,
     text |-> NoText, colour |-> NoColour]
FillText(text, x, y) ==
    [op |-> "fillText", x |-> x, y |-> y, x2 |-> 0, y2 |-> 0,
     text |-> text, colour |-> NoColour]
StrokeLine(x1, y1, x2, y2, colour) ==
    [op |-> "line", x |-> x1, y |-> y1, x2 |-> x2, y2 |-> y2,
     text |-> NoText, colour |-> colour]
FillArc(x, y, radius, colour) ==
    [op |-> "fillArc", x |-> x, y |-> y, x2 |-> radius, y2 |-> 0,
     text |-> NoText, colour |-> colour]
StrokeArc(x, y, radius) ==
    [op |-> "strokeArc", x |-> x, y |-> y, x2 |-> radius, y2 |-> 0,
     text |-> NoText, colour |-> NoColour]

\* CanvasWidth / Camera.z and CanvasHeight / Camera.z
viewWidth(cam) == (CanvasWidth * ZoomOne) \div cam.z
viewHeight(cam) == (CanvasHeight * ZoomOne) \div cam.z

\* LayoutBounds.xMax - LayoutBounds.xMin || 1
boundsRange(lo, hi) ==
    LET d == JsSub(hi, lo) IN IF d = NaN \/ d = 0 THEN One ELSE d

\* (-Camera.x) + (x - LayoutBounds.xMin) / bx * w
screenCoord(camAt, v, lo, hi, extent) ==
    IF v = NaN \/ lo = NaN THEN NaN
    ELSE -camAt + ((v - lo) * extent) \div boundsRange(lo, hi)

toScreen(x, y, bounds, cam) ==
    [x |-> screenCoord(cam.x, x, bounds.xMin, bounds.xMax, viewWidth(cam)),
     y |-> screenCoord(cam.y, y, bounds.yMin, bounds.yMax, viewHeight(cam))]

\* a depthToColor that divides by maxDepth whatever it is
depthToColorUnguarded(depth, maxDepth) ==
    IF maxDepth = 0 THEN [r |-> NaN, g |-> NaN, b |-> NaN]
    ELSE [r |-> (100 * maxDepth + depth * 155) \div maxDepth,
          g |-> (180 * maxDepth - depth * 100) \div maxDepth,
          b |-> (255 * maxDepth - depth * 100) \div maxDepth]

\* Math.floor(100 + t * 155), Math.floor(180 - t * 100) and
\* Math.floor(255 - t * 100) with t = depth / maxDepth
depthToColor(depth, maxDepth) ==
    IF maxDepth = 0 THEN [r |-> 100, g |-> 180, b |-> 255]
    ELSE [r |-> (100 * maxDepth + depth * 155) \div maxDepth,
          g |-> (180 * maxDepth - depth * 100) \div maxDepth,
          b |-> (255 * maxDepth - depth * 100) \div maxDepth]

\* a status text that has no literal of its own for "error"
statusMessageNoError(status) ==
    IF status = "parsing" THEN "Parsing directory_map.json..."
    ELSE "Loading directory_map.json..."

\* the msg of Render for an empty scene
statusMessage(status) ==
    IF status = "parsing" THEN "Parsing directory_map.json..."
    ELSE IF status = "error" THEN "Failed to load directory_map.json"
    ELSE "Loading directory_map.json..."

\* fillRect(-Camera.x, -Camera.y, CanvasWidth / Camera.z, ...)
drawBackground(cam) == FillRect(-cam.x, -cam.y, viewWidth(cam), viewHeight(cam))

\* the branch of Render for TreeNodes.length === 0
drawStatus(status, cam) ==
    <<FillText(statusMessage(status),
               viewWidth(cam) \div 2 - cam.x, viewHeight(cam) \div 2 - cam.y)>>

\* TreeEdges.forEach: a line from the node of e.from to the node of e.to
drawEdges(nodes, edges, bounds, cam, maxDepth) ==
    [k \in 1..Len(edges) |->
        LET from == nodes[nodeById(nodes, edges[k].from)]
            to == nodes[nodeById(nodes, edges[k].to)]
            p1 == toScreen(from.x, from.y, bounds, cam)
            p2 == toScreen(to.x, to.y, bounds, cam)
        IN StrokeLine(p1.x, p1.y, p2.x, p2.y,
                      depthToColor(to.depth, maxDepth))]

\* Math.max(1, 3 / Camera.z)
nodeR(cam) == Max(1, (3 * ZoomOne) \div cam.z)

\* TreeNodes.forEach: a dot per node
drawNodes(nodes, bounds, cam, maxDepth) ==
    [k \in 1..Len(nodes) |->
        LET p == toScreen(nodes[k].x, nodes[k].y, bounds, cam)
        IN FillArc(p.x, p.y, nodeR(cam),
                   depthToColor(nodes[k].depth, maxDepth))]

\* if (TruncatedMessage) fillText(TruncatedMessage, ...)
drawTruncation(message, cam) ==
    IF message = NullMsg THEN <<>>
    ELSE <<FillText(message, -cam.x + 8, -cam.y + viewHeight(cam) - 16)>>

\* the scatter file's dots: (n.radius || 0.01) * scale, at least 2 pixels,
\* with scale = (w / bx + h / by) * 0.5
radiusPx(n, bounds, cam) ==
    LET scale == ((viewWidth(cam) * One)
                      \div boundsRange(bounds.xMin, bounds.xMax)
                  + (viewHeight(cam) * One)
                      \div boundsRange(bounds.yMin, bounds.yMax)) \div 2
        radius == IF n.radius = NaN \/ n.radius = 0 THEN One \div 100
                  ELSE n.radius
    IN Max(2, (radius * scale) \div One)

\* the scatter file's TreeNodes.forEach: a filled disc and its outline
RECURSIVE drawDiscs(_, _, _, _, _)
drawDiscs(nodes, k, bounds, cam, maxDepth) ==
    IF k > Len(nodes) THEN <<>>
    ELSE LET p == toScreen(nodes[k].x, nodes[k].y, bounds, cam)
             radius == radiusPx(nodes[k], bounds, cam)
         IN <<FillArc(p.x, p.y, radius,
                      depthToColor(nodes[k].depth, maxDepth)),
              StrokeArc(p.x, p.y, radius)>>
            \o drawDiscs(nodes, k + 1, bounds, cam, maxDepth)

\* a Render of the tree files that paints the dots before the edges
RenderDotsFirst(p, status, cam) ==
    <<drawBackground(cam)>>
    \o (IF p.TreeNodes = <<>> THEN drawStatus(status, cam)
        ELSE LET maxDepth == maxDepthOf(p.TreeNodes)
             IN (IF variant = "scatter"
                 THEN drawDiscs(p.TreeNodes, 1, p.LayoutBounds, cam, maxDepth)
                 ELSE drawNodes(p.TreeNodes, p.LayoutBounds, cam, maxDepth)
                      \o drawEdges(p.TreeNodes, p.TreeEdges, p.LayoutBounds,
                                   cam, maxDepth))
                \o drawTruncation(p.TruncatedMessage, cam))

\* Render() of the loaded design file, on the scene p
Render(p, status, cam) ==
    <<drawBackground(cam)>>
    \o (IF p.TreeNodes = <<>> THEN drawStatus(status, cam)
        ELSE LET maxDepth == maxDepthOf(p.TreeNodes)
             IN (IF variant = "scatter"
                 THEN drawDiscs(p.TreeNodes, 1, p.LayoutBounds, cam, maxDepth)
                 ELSE drawEdges(p.TreeNodes, p.TreeEdges, p.LayoutBounds,
                                cam, maxDepth)
                      \o drawNodes(p.TreeNodes, p.LayoutBounds, cam,
                                   maxDepth))
                \o drawTruncation(p.TruncatedMessage, cam))

\* UpdateRender(): clear the back buffer, Render, copy to the canvas
UpdateRender(p, status, cam) ==
    <<FillRect(0, 0, CanvasWidth, CanvasHeight)>> \o Render(p, status, cam)

---------------------------------------------------------------------------
(* The program *)

\* design3/index.js registers two loaders of directory_map.json
NumLoaders == 2

\* the loaders of the loaded file: part_001, the radial file, has one
LoadersOf(v) == IF v = "radial" THEN 1 ELSE NumLoaders

\* the most key presses of one run of the page
MaxKeyEvents == 2

\* a response text that is no JSON: JSON.parse throws on it
Invalid == [kind |-> "invalid", entries |-> <<>>]

\* the documents shown with the camera moving
ViewDocuments ==
    {ScenarioDoc, SlashDoc, JObj(<<>>),
     JObj(<<Entry("", JObj(<<Entry("a", JObj(<<>>))>>))>>)}

\* the texts the next fetch may deliver: any text first; a later fetch of
\* the same URL the text delivered before, a null document, or no JSON
Responses ==
    IF loads = 0 /\ pending = <<>> THEN catalogue \cup {Invalid}
    ELSE {IF pending # <<>> THEN pending[Len(pending)] ELSE DirectoryMap,
          JNull, Invalid}

\* the globals MakePoster stores, as Render reads them
scene ==
    [TreeNodes |-> TreeNodes, TreeEdges |-> TreeEdges,
     TruncatedMessage |-> TruncatedMessage, LayoutBounds |-> LayoutBounds]

\* the state of the scripts once loaded, before the page is ready
InitWith(docs) ==
    /\ variant \in Variants
    /\ MaxNodes \in CapChoices
    /\ MaxLevels \in (IF variant = "scatter" THEN LevelChoices
                      ELSE {MaxLevelCap})
    /\ catalogue = docs
    /\ DirectoryMap = JNull
    /\ TreeNodes = <<>>
    /\ TreeEdges = <<>>
    /\ LayoutBounds = [xMin |-> 0, xMax |-> One, yMin |-> 0, yMax |-> One]
    /\ TruncatedMessage = NullMsg
    /\ LoadStatus = "loading"
    /\ Camera = [x |-> 0, y |-> 0, z |-> ZoomOne]
    /\ shiftKey = FALSE
    /\ keyEvents = 0
    /\ buttonDown = FALSE
    /\ handlers = <<>>
    /\ mouseEvents = 0
    /\ drawn = <<>>
    /\ inflight = 0
    /\ pending = <<>>
    /\ started = FALSE
    /\ loads = 0
    /\ Squares = <<>>
    /\ Arcs = <<>>
    /\ cursor = Undefined
    /\ dir = Undefined
    /\ onThe = Undefined
    /\ calls = <<>>

Init == InitWith(Documents)

\* the ready handlers: the loaders' Init() and $.ajax(...), and the
\* page's Init(); MakePoster(); UpdateRender();
Startup ==
    /\ ~started
    /\ started' = TRUE
    /\ Camera' = [x |-> 0, y |-> 0, z |-> ZoomOne]
    /\ inflight' = LoadersOf(variant)
    /\ \E rnd \in RandomDraws(DirectoryMap) :
         LET p == MakePoster(DirectoryMap, rnd)
         IN /\ Store(p)
            /\ drawn' = UpdateRender(p, LoadStatus, Camera')
    /\ UNCHANGED <<variant, MaxNodes, MaxLevels, catalogue, DirectoryMap,
                   LoadStatus, shiftKey, keyEvents, pending, loads>>
    /\ UNCHANGED mouseVars
    /\ UNCHANGED turtleVars

\* a success callback that sets no timer: the text is never parsed
FetchSuccessNoTimer ==
    /\ started
    /\ inflight > 0
    /\ inflight' = inflight - 1
    /\ LoadStatus' = "parsing"
    /\ drawn' = UpdateRender(scene, "parsing", Camera)
    /\ UNCHANGED <<variant, MaxNodes, MaxLevels, catalogue, DirectoryMap,
                   TreeNodes, TreeEdges, LayoutBounds, TruncatedMessage,
                   Camera, shiftKey, keyEvents, pending, started, loads>>
    /\ UNCHANGED mouseVars
    /\ UNCHANGED turtleVars

\* success: LoadStatus = "parsing"; UpdateRender(); setTimeout(..., 0)
FetchSuccess ==
    /\ started
    /\ inflight > 0
    /\ inflight' = inflight - 1
    /\ LoadStatus' = "parsing"
    /\ drawn' = UpdateRender(scene, "parsing", Camera)
    /\ \E text \in Responses : pending' = Append(pending, text)
    /\ UNCHANGED <<variant, MaxNodes, MaxLevels, catalogue, DirectoryMap,
                   TreeNodes, TreeEdges, LayoutBounds, TruncatedMessage,
                   Camera, shiftKey, keyEvents, started, loads>>
    /\ UNCHANGED mouseVars
    /\ UNCHANGED turtleVars

\* an error callback that calls Init() again: the camera is set back
FetchErrorInit ==
    /\ started
    /\ inflight > 0
    /\ inflight' = inflight - 1
    /\ LoadStatus' = "error"
    /\ Camera' = [x |-> 0, y |-> 0, z |-> ZoomOne]
    /\ drawn' = UpdateRender(scene, "error", Camera')
    /\ UNCHANGED <<variant, MaxNodes, MaxLevels, catalogue, DirectoryMap,
                   TreeNodes, TreeEdges, LayoutBounds, TruncatedMessage,
                   shiftKey, keyEvents, pending, started, loads>>
    /\ UNCHANGED mouseVars
    /\ UNCHANGED turtleVars

\* error: LoadStatus = "error"; UpdateRender();
FetchError ==
    /\ started
    /\ inflight > 0
    /\ inflight' = inflight - 1
    /\ LoadStatus' = "error"
    /\ drawn' = UpdateRender(scene, "error", Camera)
    /\ UNCHANGED <<variant, MaxNodes, MaxLevels, catalogue, DirectoryMap,
                   TreeNodes, TreeEdges, LayoutBounds, TruncatedMessage,
                   Camera, shiftKey, keyEvents, pending, started, loads>>
    /\ UNCHANGED mouseVars
    /\ UNCHANGED turtleVars

\* the deferred callback of a loader: try { DirectoryMap =
\* JSON.parse(text); MakePoster(); LoadStatus = "ready"; UpdateRender(); }
\* catch (e) { LoadStatus = "error"; UpdateRender(); }
ParseCallback ==
    /\ pending # <<>>
    /\ pending' = Tail(pending)
    /\ loads' = loads + 1
    /\ IF Head(pending) = Invalid
       THEN /\ LoadStatus' = "error"
            /\ drawn' = UpdateRender(scene, "error", Camera)
            /\ UNCHANGED <<DirectoryMap, TreeNodes, TreeEdges, LayoutBounds,
                           TruncatedMessage>>
       ELSE /\ DirectoryMap' = Head(pending)
            /\ LoadStatus' = "ready"
            /\ \E rnd \in RandomDraws(Head(pending)) :
                 LET p == MakePoster(Head(pending), rnd)
                 IN /\ Store(p)
                    /\ drawn' = UpdateRender(p, "ready", Camera)
    /\ UNCHANGED <<variant, MaxNodes, MaxLevels, catalogue, Camera, shiftKey,
                   keyEvents, inflight, started>>
    /\ UNCHANGED mouseVars
    /\ UNCHANGED turtleVars

Next == Startup \/ FetchSuccess \/ FetchError \/ ParseCallback

Spec == Init /\ [][Next]_vars

\* the key codes: shiftKey, the four arrows, and any other key
Which == {16, 37, 38, 39, 40, 65}

\* var stepSize = 5
stepSize == 5

\* Camera.z times 0.95 or 1.05, in hundredths: a positive number times a
\* positive factor does not round to 0 (the smallest positive float times
\* 0.95 rounds to itself), so one thousandth is the least
zoomTimes(z, hundredths) == Max(1, (z * hundredths) \div 100)

\* a keydown handler that does not look at shift: up and down zoom
cameraAfterKeyNoShift(which) ==
    IF which = 38 THEN [Camera EXCEPT !.z = zoomTimes(@, 95)]
    ELSE IF which = 40 THEN [Camera EXCEPT !.z = zoomTimes(@, 105)]
    ELSE IF which = 39 THEN [Camera EXCEPT !.x = @ + stepSize]
    ELSE IF which = 37 THEN [Camera EXCEPT !.x = @ - stepSize]
    ELSE Camera

\* the camera after the keydown handler, for key code which
cameraAfterKey(which) ==
    IF shiftKey
    THEN (IF which = 38 THEN [Camera EXCEPT !.z = zoomTimes(@, 95)]
          ELSE IF which = 40 THEN [Camera EXCEPT !.z = zoomTimes(@, 105)]
          ELSE Camera)
    ELSE (IF which = 39 THEN [Camera EXCEPT !.x = @ + stepSize]
          ELSE IF which = 37 THEN [Camera EXCEPT !.x = @ - stepSize]
          ELSE IF which = 40 THEN [Camera EXCEPT !.y = @ + stepSize]
          ELSE IF which = 38 THEN [Camera EXCEPT !.y = @ - stepSize]
          ELSE Camera)

\* keydown: the camera handler with its UpdateRender(), then the handler
\* that sets shift
KeyDown ==
    /\ started
    /\ keyEvents < MaxKeyEvents
    /\ keyEvents' = keyEvents + 1
    /\ \E which \in Which :
         /\ Camera' = cameraAfterKey(which)
         /\ shiftKey' = (IF which = 16 THEN TRUE ELSE shiftKey)
    /\ drawn' = UpdateRender(scene, LoadStatus, Camera')
    /\ UNCHANGED <<variant, MaxNodes, MaxLevels, catalogue, DirectoryMap,
                   TreeNodes, TreeEdges, LayoutBounds, TruncatedMessage,
                   LoadStatus, inflight, pending, started, loads>>
    /\ UNCHANGED mouseVars
    /\ UNCHANGED turtleVars

\* keyup of the shift key
KeyUp ==
    /\ started
    /\ shiftKey
    /\ shiftKey' = FALSE
    /\ UNCHANGED <<variant, MaxNodes, MaxLevels, catalogue, DirectoryMap,
                   TreeNodes, TreeEdges, LayoutBounds, TruncatedMessage,
                   LoadStatus, Camera, keyEvents, drawn, inflight, pending,
                   started, loads>>
    /\ UNCHANGED mouseVars
    /\ UNCHANGED turtleVars

InitView == InitWith(ViewDocuments)

NextView == Next \/ KeyDown \/ KeyUp

\* the page with the keyboard in use
SpecView == InitView /\ [][NextView]_vars

\* a timer callback runs: the step of ParseCallback, the only one that
\* takes a text off pending, seen on pending alone; it can be taken
\* whenever a text is pending
TimerFires == pending # <<>> /\ pending' = Tail(pending)

\* the loaders on the documents of ViewDocuments, with every timer
\* callback that has been scheduled run in the end
SpecLive == InitView /\ [][Next]_vars /\ WF_pending(TimerFires)

\* the most mouse events of one run of the page
MaxMouseEvents == 4

\* the places (pageX, pageY) of the mouse events
Positions == {[x |-> 0, y |-> 0], [x |-> 7, y |-> 3]}

\* mousedown on the canvas at e: binds one more mousemove handler on the
\* window, with init_x, init_y, c_x and c_y in its closure
MouseDown ==
    /\ started
    /\ ~buttonDown
    /\ mouseEvents < MaxMouseEvents
    /\ mouseEvents' = mouseEvents + 1
    /\ buttonDown' = TRUE
    /\ \E e \in Positions :
         handlers' = Append(handlers,
                            [init_x |-> e.x, init_y |-> e.y,
                             c_x |-> Camera.x, c_y |-> Camera.y])
    /\ UNCHANGED <<variant, MaxNodes, MaxLevels, catalogue, DirectoryMap,
                   TreeNodes, TreeEdges, LayoutBounds, TruncatedMessage,
                   LoadStatus, Camera, shiftKey, keyEvents, drawn, inflight,
                   pending, started, loads>>
    /\ UNCHANGED turtleVars

\* the camera after the bound mousemove handlers, from the k-th on, have
\* run on a move to e: Camera.x = c_x + (init_x - e.pageX), and so for y
RECURSIVE cameraAfterMove(_, _, _, _)
cameraAfterMove(cam, bound, k, e) ==
    IF k > Len(bound) THEN cam
    ELSE cameraAfterMove(
             [cam EXCEPT !.x = bound[k].c_x + (bound[k].init_x - e.x),
                         !.y = bound[k].c_y + (bound[k].init_y - e.y)],
             bound, k + 1, e)

\* mousemove anywhere in the window: every bound handler sets the camera
\* and calls UpdateRender()
MouseMove ==
    /\ started
    /\ mouseEvents < MaxMouseEvents
    /\ mouseEvents' = mouseEvents + 1
    /\ \E e \in Positions : Camera' = cameraAfterMove(Camera, handlers, 1, e)
    /\ drawn' = (IF handlers = <<>> THEN drawn
                 ELSE UpdateRender(scene, LoadStatus, Camera'))
    /\ UNCHANGED <<variant, MaxNodes, MaxLevels, catalogue, DirectoryMap,
                   TreeNodes, TreeEdges, LayoutBounds, TruncatedMessage,
                   LoadStatus, shiftKey, keyEvents, inflight, pending,
                   buttonDown, handlers, started, loads>>
    /\ UNCHANGED turtleVars

\* the button is released: over the canvas the mouseup handler unbinds
\* the mousemove handlers; elsewhere no handler runs
MouseUp ==
    /\ started
    /\ buttonDown
    /\ mouseEvents < MaxMouseEvents
    /\ mouseEvents' = mouseEvents + 1
    /\ buttonDown' = FALSE
    /\ \E onCanvas \in BOOLEAN :
         handlers' = (IF onCanvas THEN <<>> ELSE handlers)
    /\ UNCHANGED <<variant, MaxNodes, MaxLevels, catalogue, DirectoryMap,
                   TreeNodes, TreeEdges, LayoutBounds, TruncatedMessage,
                   LoadStatus, Camera, shiftKey, keyEvents, drawn, inflight,
                   pending, started, loads>>
    /\ UNCHANGED turtleVars

NextMouse == Next \/ MouseDown \/ MouseMove \/ MouseUp

\* the page with the mouse in use
SpecMouse == InitView /\ [][NextMouse]_vars

---------------------------------------------------------------------------
(* Reference notions the properties are stated with *)

\* MakePoster has run on the current DirectoryMap
AfterMakePoster == started

\* the keys of a document in depth-first pre-order, keys in enumeration
\* order, down to the depth the loaded file's walk descends to
RECURSIVE PreOrderFrom(_, _, _)
PreOrderFrom(obj, i, depth) ==
    IF i > Len(obj.entries) \/ (variant = "scatter" /\ depth >= MaxLevels)
    THEN <<>>
    ELSE <<[name |-> obj.entries[i].key, depth |-> depth,
            isObject |-> obj.entries[i].val.kind = "obj",
            indexInParent |-> i - 1, siblingCount |-> Len(obj.entries)]>>
         \o PreOrderFrom(obj.entries[i].val, 1, depth + 1)
         \o PreOrderFrom(obj, i + 1, depth)
PreOrder(doc) == PreOrderFrom(doc, 1, 0)

\* the number of edges on the path that leads to the node of this id
RECURSIVE EdgeDepth(_)
EdgeDepth(id) ==
    IF \E k \in 1..Len(TreeEdges) : TreeEdges[k].to = id
    THEN 1 + EdgeDepth(TreeEdges[CHOOSE k \in 1..Len(TreeEdges) :
                                    TreeEdges[k].to = id].from)
    ELSE 0

\* the number of edges whose target is this id
InEdges(id) == Cardinality({k \in 1..Len(TreeEdges) : TreeEdges[k].to = id})

NodeIndices == 1..Len(TreeNodes)
EdgeIndices == 1..Len(TreeEdges)

---------------------------------------------------------------------------
(* C1 *)

\* C1: after MakePoster the node list holds exactly one node per key
\* reachable within the caps, each node's depth is the number of edges on
\* its path from a depth-0 node, and the from id of every edge is the id of
\* a node of the node list.
C1_OneNodePerKey ==
    AfterMakePoster =>
        /\ Len(TreeNodes) = Min(Len(PreOrder(DirectoryMap)), MaxNodes)
        /\ \A i \in NodeIndices :
               TreeNodes[i].depth = EdgeDepth(TreeNodes[i].id)
        /\ \A k \in EdgeIndices :
               \E i \in NodeIndices : TreeNodes[i].id = TreeEdges[k].from

---------------------------------------------------------------------------
(* C2 *)

\* C2: after MakePoster any two distinct nodes of TreeNodes have different
\* ids, for every document, empty keys and keys holding "/" included.
C2_UniqueIds ==
    AfterMakePoster =>
        \A i, j \in NodeIndices : i # j => TreeNodes[i].id # TreeNodes[j].id

---------------------------------------------------------------------------
(* C3 *)

\* C3: after MakePoster every node of depth > 0 is the target of exactly
\* one edge and every node of depth 0 of none; along each edge the child's
\* depth is the parent's depth + 1; and each children array is in ascending
\* indexInParent.
C3_ParentEdges ==
    AfterMakePoster =>
        /\ \A i \in NodeIndices :
               InEdges(TreeNodes[i].id) =
                   (IF TreeNodes[i].depth > 0 THEN 1 ELSE 0)
        /\ \A k \in EdgeIndices : \A p, c \in NodeIndices :
               (TreeNodes[p].id = TreeEdges[k].from
                /\ TreeNodes[c].id = TreeEdges[k].to)
               => TreeNodes[c].depth = TreeNodes[p].depth + 1
        /\ \A i \in NodeIndices :
               LET kids == TreeNodes[i].children
               IN \A a, b \in 1..Len(kids) :
                      a < b => TreeNodes[kids[a]].indexInParent
                               < TreeNodes[kids[b]].indexInParent

---------------------------------------------------------------------------
(* C4 *)

\* the i-th node is the node of the i-th key of the pre-order
IsNodeOfKey(n, key) ==
    /\ n.name = key.name
    /\ n.depth = key.depth
    /\ n.indexInParent = key.indexInParent
    /\ n.siblingCount = key.siblingCount

\* C4: the node cap is a hard prefix truncation: for a document with K
\* reachable keys MakePoster stores exactly min(K, MaxNodes) nodes, and
\* they are the first min(K, MaxNodes) keys of the depth-first pre-order.
C4_PrefixTruncation ==
    AfterMakePoster =>
        LET keys == PreOrder(DirectoryMap)
        IN /\ Len(TreeNodes) = Min(Len(keys), MaxNodes)
           /\ \A i \in NodeIndices : IsNodeOfKey(TreeNodes[i], keys[i])

\* a document of more keys than the cap, cut inside a subtree
C4_Witness ==
    /\ AfterMakePoster
    /\ Len(PreOrder(DirectoryMap)) > MaxNodes
    /\ Len(TreeNodes) = MaxNodes
    /\ MaxNodes >= 2
    /\ TreeNodes[MaxNodes].depth > 0

---------------------------------------------------------------------------
(* C5 *)

TheMessage == "Showing first " \o ToString(MaxNodes) \o " nodes"

\* C5: after MakePoster TruncatedMessage is "Showing first <MaxNodes>
\* nodes" if and only if the node cap was reached and keys were dropped
\* for it, and null otherwise; reaching only the depth cap leaves it null.
C5_MessageIffTruncated ==
    AfterMakePoster =>
        TruncatedMessage =
            (IF Len(PreOrder(DirectoryMap)) > MaxNodes THEN TheMessage
             ELSE NullMsg)

---------------------------------------------------------------------------
(* C6 *)

\* C6: in the file whose walk has the depth cap, every node of TreeNodes
\* has depth < MaxLevels and a directory at depth MaxLevels - 1 has an
\* empty children array.
C6_DepthCap ==
    (AfterMakePoster /\ variant = "scatter") =>
        \A i \in NodeIndices :
            /\ TreeNodes[i].depth < MaxLevels
            /\ (TreeNodes[i].type = "dir"
                /\ TreeNodes[i].depth = MaxLevels - 1)
               => TreeNodes[i].children = <<>>

---------------------------------------------------------------------------
(* C7 *)

\* the scene of {"a": {"b": null, "c": null}}
ScenarioShape ==
    /\ Len(TreeNodes) = 3
    /\ [i \in 1..3 |-> <<TreeNodes[i].id, TreeNodes[i].depth,
                         TreeNodes[i].type>>]
       = << <<"a", 0, "dir">>, <<"a/b", 1, "file">>, <<"a/c", 1, "file">> >>
    /\ TreeEdges = << [from |-> "a", to |-> "a/b"],
                      [from |-> "a", to |-> "a/c"] >>

\* C7: a key whose value is a non-null object becomes a node of type dir
\* and is recursed into; a key of any other value, null included, becomes
\* a node of type file with no outgoing edge and no child; and
\* {"a": {"b": null, "c": null}} with the caps not reached gives the three
\* nodes a, a/b, a/c and the two edges a->a/b, a->a/c.
C7_DirOrFile ==
    AfterMakePoster =>
        LET keys == PreOrder(DirectoryMap)
        IN /\ \A i \in NodeIndices :
                  /\ TreeNodes[i].type =
                         (IF keys[i].isObject THEN "dir" ELSE "file")
                  /\ TreeNodes[i].type = "file" =>
                         /\ TreeNodes[i].children = <<>>
                         /\ \A k \in EdgeIndices :
                                TreeEdges[k].from # TreeNodes[i].id
                  /\ (TreeNodes[i].type = "dir" /\ i < Len(TreeNodes)
                      /\ keys[i + 1].depth = keys[i].depth + 1)
                     => TreeNodes[i + 1].depth = TreeNodes[i].depth + 1
           /\ (DirectoryMap = ScenarioDoc /\ MaxNodes > 3
               /\ ~ DepthCapped(1))
              => ScenarioShape

---------------------------------------------------------------------------
(* C8 *)

\* a node without the fields the layout assigns
Unplaced(n) ==
    [n EXCEPT !.x = NaN, !.y = NaN, !.radius = NaN, !.r = NaN,
              !.angle = NaN]
Shape(nodes) == [i \in 1..Len(nodes) |-> Unplaced(nodes[i])]

\* a deferred callback runs MakePoster on the document the scene was
\* built from
RerunOnSameMap == loads' = loads + 1 /\ DirectoryMap' = DirectoryMap

\* C8: running MakePoster again on the same DirectoryMap with the same
\* caps yields the same nodes (ids, depths, types, children) and the same
\* edges, in the Cartesian and radial layouts also the same positions and
\* bounds, and in the scatter layout the same node count; the second run
\* replaces the scene and appends nothing.
C8_RerunIdentical ==
    [][RerunOnSameMap =>
          /\ Len(TreeNodes') = Len(TreeNodes)
          /\ Shape(TreeNodes') = Shape(TreeNodes)
          /\ TreeEdges' = TreeEdges
          /\ TruncatedMessage' = TruncatedMessage
          /\ variant \in {"cartesian", "radial"} =>
                 /\ TreeNodes' = TreeNodes
                 /\ LayoutBounds' = LayoutBounds]_vars

\* the second loader has rebuilt a scene with edges (a later response is
\* the same document, or a null or empty one)
C8_Witness ==
    /\ loads = LoadersOf(variant)
    /\ Len(TreeNodes) >= 3
    /\ TreeEdges # <<>>
    /\ variant = "cartesian"

---------------------------------------------------------------------------
(* C9 *)

\* a step that runs MakePoster
MakePosterStep ==
    \/ ~started /\ started'
    \/ loads' = loads + 1 /\ Head(pending) # Invalid

\* C9: on a DirectoryMap that is null or has no keys MakePoster returns
\* with TreeNodes = [], TreeEdges = [], TruncatedMessage = null and
\* LayoutBounds exactly as it was before the call.
C9_EmptyRoot ==
    [][(MakePosterStep
        /\ (DirectoryMap'.kind = "null" \/ DirectoryMap'.entries = <<>>))
       => /\ TreeNodes' = <<>>
          /\ TreeEdges' = <<>>
          /\ TruncatedMessage' = NullMsg
          /\ LayoutBounds' = LayoutBounds]_vars

\* a null or empty document has replaced one whose scene had set the bounds
C9_Witness ==
    /\ loads = NumLoaders
    /\ DirectoryMap \in {JNull, JObj(<<>>)}
    /\ TreeNodes = <<>>
    /\ LayoutBounds # [xMin |-> 0, xMax |-> One, yMin |-> 0, yMax |-> One]

---------------------------------------------------------------------------
(* C10 *)

\* C10: after every MakePoster that stores at least one node, every node's
\* disc lies inside LayoutBounds (radius 0 where none is assigned).
C10_DiscsInsideBounds ==
    (AfterMakePoster /\ TreeNodes # <<>>) =>
        \A i \in NodeIndices :
            /\ JsGeq(DiscLeft(TreeNodes[i]), LayoutBounds.xMin)
            /\ JsLeq(DiscRight(TreeNodes[i]), LayoutBounds.xMax)
            /\ JsGeq(DiscTop(TreeNodes[i]), LayoutBounds.yMin)
            /\ JsLeq(DiscBottom(TreeNodes[i]), LayoutBounds.yMax)

---------------------------------------------------------------------------
(* C11 *)

\* the positions of the Cartesian layout after both repair passes, before
\* normalisation, for the loaded document
RepairedCartesian == placeCartesian(builtNodes(DirectoryMap))

\* the x of the later of two nodes is at least minSpacing beyond the other
Spaced(nodes, current, next) ==
    JsGeq(JsSub(nodes[next].x, nodes[current].x), minSpacingOf(Len(nodes)))

\* C11: in the Cartesian layout, after the sibling and root repair passes
\* and before normalisation, every pair of adjacent siblings and every pair
\* of adjacent roots has x(next) - x(current) >= minSpacing.
C11_CartesianSpacing ==
    (AfterMakePoster /\ variant = "cartesian" /\ TreeNodes # <<>>) =>
        LET nodes == RepairedCartesian
            roots == sortByX(nodes, rootsOf(nodes), Len(rootsOf(nodes)))
        IN /\ \A n \in 1..Len(nodes) :
                  \A k \in 1..(Len(nodes[n].children) - 1) :
                      Spaced(nodes, nodes[n].children[k],
                             nodes[n].children[k + 1])
           /\ \A k \in 1..(Len(roots) - 1) :
                  Spaced(nodes, roots[k], roots[k + 1])

---------------------------------------------------------------------------
(* C12 *)

\* the sums of the sines and of the cosines of a list of angles
RECURSIVE SineSum(_)
SineSum(angles) ==
    IF angles = <<>> THEN 0 ELSE Sin(Head(angles)) + SineSum(Tail(angles))
RECURSIVE CosineSum(_)
CosineSum(angles) ==
    IF angles = <<>> THEN 0 ELSE Cos(Head(angles)) + CosineSum(Tail(angles))

\* the angles of the children of the i-th stored node, in children order
ChildAngles(i) ==
    [k \in 1..Len(TreeNodes[i].children) |->
        TreeNodes[TreeNodes[i].children[k]].angle]

\* C12: in the radial layout the angle of every node that has children is
\* the circular mean atan2(sum of sin, sum of cos) of its children's
\* angles; a parent of two children at 0 and pi/2 has the angle pi/4.
C12_CircularMean ==
    (AfterMakePoster /\ variant = "radial") =>
        \A i \in NodeIndices :
            TreeNodes[i].children # <<>> =>
                /\ TreeNodes[i].angle # NaN
                /\ \A k \in 1..Len(ChildAngles(i)) : ChildAngles(i)[k] # NaN
                /\ TreeNodes[i].angle =
                       atan2(SineSum(ChildAngles(i)), CosineSum(ChildAngles(i)))
                /\ ChildAngles(i) = <<0, 90>> => TreeNodes[i].angle = 45

---------------------------------------------------------------------------
(* C13 *)

\* where the dot of the k-th stored node is among the canvas calls: after
\* the clear and the background, and in the tree files after the edges
DotAt(k) ==
    IF variant = "scatter" THEN 2 * k + 1 ELSE 2 + Len(TreeEdges) + k

\* the calls that paint with a colour of depthToColor
Coloured(call) == call.op \in {"fillArc", "line"}

DefaultColour == [r |-> 100, g |-> 180, b |-> 255]
DeepestColour == [r |-> 255, g |-> 80, b |-> 155]

\* C13: depthToColor(depth, 0) is the default colour (100, 180, 255) for
\* every depth, without a division; for maxDepth > 0 and depth in
\* 0..maxDepth every channel is an integer in 0..255, depth 0 gives
\* (100, 180, 255) and depth = maxDepth gives (255, 80, 155).  Checked on
\* the colours Render paints the stored nodes and edges with.
C13_DepthColours ==
    TreeNodes # <<>> =>
        LET maxDepth == maxDepthOf(TreeNodes)
        IN /\ \A c \in 1..Len(drawn) :
                Coloured(drawn[c]) =>
                    {drawn[c].colour.r, drawn[c].colour.g, drawn[c].colour.b}
                        \subseteq 0..255
           /\ \A k \in NodeIndices :
                LET dot == drawn[DotAt(k)]
                    depth == TreeNodes[k].depth
                IN /\ dot.op = "fillArc"
                   /\ dot.colour = depthToColor(depth, maxDepth)
                   /\ maxDepth = 0 => dot.colour = DefaultColour
                   /\ depth = 0 => dot.colour = DefaultColour
                   /\ (maxDepth > 0 /\ depth = maxDepth)
                          => dot.colour = DeepestColour

\* a scene of depth-0 nodes only has been painted in the default colour
C13_Witness ==
    /\ LoadStatus = "ready"
    /\ TreeNodes # <<>>
    /\ maxDepthOf(TreeNodes) = 0
    /\ drawn[DotAt(1)].colour = DefaultColour

---------------------------------------------------------------------------
(* C14 *)

\* C14: when TreeNodes is empty Render draws only the status message,
\* centred in the view, and no edge, node or truncation text; the message
\* is chosen by LoadStatus, and the strings for loading, parsing and error
\* are three distinct literals.
C14_StatusOnly ==
    (started /\ TreeNodes = <<>>) =>
        /\ Len(drawn) = 3
        /\ drawn[1] = FillRect(0, 0, CanvasWidth, CanvasHeight)
        /\ drawn[2] = FillRect(-Camera.x, -Camera.y, viewWidth(Camera),
                               viewHeight(Camera))
        /\ drawn[3].op = "fillText"
        /\ drawn[3].x = viewWidth(Camera) \div 2 - Camera.x
        /\ drawn[3].y = viewHeight(Camera) \div 2 - Camera.y
        /\ LoadStatus = "loading"
               => drawn[3].text = "Loading directory_map.json..."
        /\ LoadStatus = "parsing"
               => drawn[3].text = "Parsing directory_map.json..."
        /\ LoadStatus = "error"
               => drawn[3].text = "Failed to load directory_map.json"
        /\ Cardinality({statusMessage(status) :
                           status \in {"loading", "parsing", "error"}}) = 3

\* the failure message is on the canvas, with the camera moved
C14_Witness ==
    /\ started
    /\ TreeNodes = <<>>
    /\ LoadStatus = "error"
    /\ Camera.x # 0
    /\ drawn[3].text = "Failed to load directory_map.json"

---------------------------------------------------------------------------
(* C15 *)

\* C15: error is a terminal load status with no retry: once LoadStatus is
\* "error", after a fetch failure or a parse failure, no later event
\* changes LoadStatus, and no fetch and no parse is started.
C15_ErrorTerminal ==
    [][LoadStatus = "error"
       => /\ LoadStatus' = "error"
          /\ inflight' <= inflight
          /\ pending' = pending
          /\ loads' = loads]_vars

---------------------------------------------------------------------------
(* C16 *)

\* a step that runs JSON.parse on a delivered text
ParseStep == loads' = loads + 1

\* the canvas shows the parsing message
ShowsParsing ==
    /\ Len(drawn) = 3
    /\ drawn[3].op = "fillText"
    /\ drawn[3].text = "Parsing directory_map.json..."

\* a step that runs the success callback of a fetch: a text is queued
SuccessStep == Len(pending') > Len(pending)

\* C16: on fetch success the parse is deferred by one tick: LoadStatus is
\* set to "parsing" and UpdateRender runs with that status before
\* JSON.parse and MakePoster run, so a render that shows the parsing
\* message precedes the parse of every delivered text.
C16_ParsingShownFirst ==
    [][/\ SuccessStep => /\ LoadStatus' = "parsing"
                          /\ ShowsParsing'
                          /\ ~ParseStep
       /\ ParseStep => /\ pending # <<>>
                        /\ pending' = Tail(pending)]_vars

---------------------------------------------------------------------------
(* C17 *)

\* the screen points of the corners (xMin, yMin) and (xMax, yMax) of
\* LayoutBounds
LowCorner ==
    toScreen(LayoutBounds.xMin, LayoutBounds.yMin, LayoutBounds, Camera)
HighCorner ==
    toScreen(LayoutBounds.xMax, LayoutBounds.yMax, LayoutBounds, Camera)

\* the corners of the rectangle the last render filled as background
BackgroundLow == [x |-> drawn[2].x, y |-> drawn[2].y]
BackgroundHigh ==
    [x |-> drawn[2].x + drawn[2].x2, y |-> drawn[2].y + drawn[2].y2]

\* a key press that leaves the zoom alone: a pan, or a key without effect
PanStep == keyEvents' = keyEvents + 1 /\ Camera'.z = Camera.z

\* the call after the camera has moved by (dx, dy); a point that is NaN
\* stays NaN
Translated(call, dx, dy) ==
    IF call.op = "line"
    THEN [call EXCEPT !.x = JsSub(@, dx), !.y = JsSub(@, dy),
                      !.x2 = JsSub(@, dx), !.y2 = JsSub(@, dy)]
    ELSE [call EXCEPT !.x = JsSub(@, dx), !.y = JsSub(@, dy)]

\* C17: toScreen is -Camera.x + (x - xMin) / boundsWidth * (CanvasWidth /
\* Camera.z), and the same for y: moving Camera.x or Camera.y by d moves
\* every screen point by exactly -d, and the corners (xMin, yMin) and
\* (xMax, yMax) of LayoutBounds map to the corners of the rectangle filled
\* as background.
C17_PanAndCorners ==
    [][/\ started' => /\ LowCorner' = BackgroundLow'
                      /\ HighCorner' = BackgroundHigh'
       /\ PanStep =>
            /\ Len(drawn') = Len(drawn)
            /\ \A c \in 2..Len(drawn) :
                 drawn'[c] = Translated(drawn[c], Camera'.x - Camera.x,
                                        Camera'.y - Camera.y)]_vars

---------------------------------------------------------------------------
(* C18 *)

\* C18: layout preserves node identity: after MakePoster the stored
\* TreeNodes holds every node the walk produced exactly once, and each of
\* them has a defined position (x, y) from the layout pass, for every
\* input and every layout variant.
C18_IdentityAndPosition ==
    AfterMakePoster =>
        /\ Len(TreeNodes) = Len(builtNodes(DirectoryMap))
        /\ \A k \in NodeIndices :
             /\ TreeNodes[k].id = builtNodes(DirectoryMap)[k].id
             /\ TreeNodes[k].depth = builtNodes(DirectoryMap)[k].depth
             /\ TreeNodes[k].x # NaN
             /\ TreeNodes[k].y # NaN

---------------------------------------------------------------------------
(* C19 *)

\* the stored scene is the empty one
EmptyScene == TreeNodes = <<>> /\ TreeEdges = <<>>

\* the stored scene is the whole capped node set of DirectoryMap, with its
\* edges, a position for every node, and bounds
CompleteScene ==
    LET w == walk(DirectoryMap, NullId, 0, "", WalkStart)
    IN /\ Len(TreeNodes) = Len(w.nodeList)
       /\ TreeEdges = w.edgeList
       /\ \A k \in NodeIndices :
            /\ TreeNodes[k].id = w.nodeList[k].id
            /\ TreeNodes[k].x # NaN
            /\ TreeNodes[k].y # NaN
       /\ \A side \in {"xMin", "xMax", "yMin", "yMax"} :
            LayoutBounds[side] # NaN

\* C19: MakePoster has no partial-failure state: wherever it stops, the
\* stored scene is either the complete capped node set with positions and
\* bounds, or TreeNodes and TreeEdges are both empty.
C19_NoPartialScene ==
    [][MakePosterStep => (EmptyScene' \/ CompleteScene')]_vars

---------------------------------------------------------------------------
(* C20 *)

\* the descendants of node n: its children, their children, and so on
RECURSIVE Descendants(_, _)
Descendants(nodes, n) ==
    LET kids == nodes[n].children
    IN {kids[k] : k \in 1..Len(kids)}
       \cup UNION {Descendants(nodes, kids[k]) : k \in 1..Len(kids)}

\* from before to after, every descendant of n has moved as far as n has
MovedWith(before, after, n) ==
    \A d \in Descendants(before, n) :
        after[d].x - before[d].x = after[n].x - before[n].x

\* in layout(n) run from the state st, and in the calls of layout below
\* it, the sibling repair moves every child together with its descendants
RECURSIVE SiblingRepairKeeps(_, _, _, _)
RECURSIVE SiblingRepairsKeep(_, _, _, _, _)
SiblingRepairKeeps(st, n, yStep, minSpacing) ==
    LET kids == st.nodes[n].children
    IN \/ Len(kids) = 0
       \/ LET st2 == layoutChildrenCartesian(st, kids, 1, yStep, minSpacing)
              st3 == repairSiblings(st2, kids, 1, minSpacing)
          IN /\ SiblingRepairsKeep(st, kids, 1, yStep, minSpacing)
             /\ \A j \in 1..Len(kids) :
                  MovedWith(st2.nodes, st3.nodes, kids[j])
SiblingRepairsKeep(st, kids, k, yStep, minSpacing) ==
    \/ k > Len(kids)
    \/ /\ SiblingRepairKeeps(st, kids[k], yStep, minSpacing)
       /\ SiblingRepairsKeep(layoutCartesian(st, kids[k], yStep, minSpacing),
                             kids, k + 1, yStep, minSpacing)

\* the root repair moves every root together with its descendants
RootRepairKeeps(nodeList) ==
    LET roots == rootsOf(nodeList)
        laid == layoutChildrenCartesian(
                    [nodes |-> nodeList, xCursor |-> 0], roots, 1,
                    yStepOf(maxDepthOf(nodeList)),
                    minSpacingOf(Len(nodeList)))
    IN \A k \in 1..Len(roots) :
         MovedWith(laid.nodes, placeCartesian(nodeList), roots[k])

\* C20: in the Cartesian layout, whenever a repair step shifts a node right
\* because it is closer than minSpacing to its left neighbour, in the
\* sibling repair inside layout as well as in the root repair, the same
\* shift is applied to every already-placed node to its right and to all
\* descendants of every shifted node.  Stated here for the descendants:
\* whatever a repair moves, it moves together with its whole subtree.
C20_RepairShiftsSubtrees ==
    (AfterMakePoster /\ variant = "cartesian" /\ TreeNodes # <<>>) =>
        LET nodeList == builtNodes(DirectoryMap)
        IN /\ SiblingRepairsKeep([nodes |-> nodeList, xCursor |-> 0],
                                 rootsOf(nodeList), 1,
                                 yStepOf(maxDepthOf(nodeList)),
                                 minSpacingOf(Len(nodeList)))
           /\ RootRepairKeeps(nodeList)

---------------------------------------------------------------------------
(* C21 *)

\* how many calls paint the edges and the nodes of the stored scene
EdgeCalls == IF variant = "scatter" THEN 0 ELSE Len(TreeEdges)
NodeCalls ==
    IF variant = "scatter" THEN 2 * Len(TreeNodes) ELSE Len(TreeNodes)

---------------------------------------------------------------------------
(* C22 *)

\* the stored tree has nodes, all of depth 0
FlatTree ==
    AfterMakePoster /\ TreeNodes # <<>> /\ maxDepthOf(TreeNodes) = 0

\* C22: degenerate trees never cause a division by zero: for a tree whose
\* maximum depth is 0 MakePoster uses the fallback constants (yStep = 1,
\* radiusStep = radiusMax, leafCount >= 1, xRange replaced by 1 when 0)
\* and gives every node finite coordinates and LayoutBounds a strictly
\* positive width and height, in every variant.
C22_FlatTreeFinite ==
    FlatTree =>
        /\ yStepOf(maxDepthOf(TreeNodes)) = One
        /\ radiusStepOf(maxDepthOf(TreeNodes)) = radiusMax
        /\ leafCountOf(TreeNodes) >= 1
        /\ xRangeOf(TreeNodes[1].x, TreeNodes[1].x) = One
        /\ \A k \in NodeIndices :
             TreeNodes[k].x # NaN /\ TreeNodes[k].y # NaN
        /\ \A side \in {"xMin", "xMax", "yMin", "yMax"} :
             LayoutBounds[side] # NaN
        /\ LayoutBounds.xMax > LayoutBounds.xMin
        /\ LayoutBounds.yMax > LayoutBounds.yMin

\* a tree of a single node has been laid out by the Cartesian file
C22_Witness ==
    /\ FlatTree
    /\ variant = "cartesian"
    /\ Len(TreeNodes) = 1
    /\ TruncatedMessage = NullMsg
    /\ TreeNodes[1].x = 0

---------------------------------------------------------------------------
(* C23 *)

\* C23: the deferred parse is not cancellable and always finishes: once
\* the success callback of a fetch has run, LoadStatus becomes "ready" or
\* "error" in the end and does not stay "parsing" for ever, the scheduled
\* timer callback being run in the end.
C23_ParseFinishes ==
    (LoadStatus = "parsing") ~> (LoadStatus \in {"ready", "error"})

\* a delivered text has been parsed and nothing is left to run
C23_Witness ==
    /\ loads > 0
    /\ LoadStatus = "ready"
    /\ pending = <<>>
    /\ inflight = 0

---------------------------------------------------------------------------
(* C24 *)

\* a step of a key handler, of a mouse handler, and of Init()
KeyStep == keyEvents' # keyEvents \/ shiftKey' # shiftKey
MouseStep == mouseEvents' # mouseEvents
InitStep == ~started /\ started'

\* C24: after its initialisation in Init, Camera is changed only by the
\* keyboard and mouse handlers: MakePoster, Render, toScreen, UpdateRender
\* and the load callbacks leave Camera.x, Camera.y and Camera.z as they
\* are, and Render leaves TreeNodes, TreeEdges and LayoutBounds as they
\* are (only a step that runs MakePoster changes them).
C24_CameraFrame ==
    [][/\ Camera' # Camera => (KeyStep \/ MouseStep \/ InitStep)
       /\ ~MakePosterStep => /\ TreeNodes' = TreeNodes
                             /\ TreeEdges' = TreeEdges
                             /\ LayoutBounds' = LayoutBounds]_vars

\* the camera has been moved by keys, and both loaders have finished with
\* a scene on the canvas
C24_Witness ==
    /\ Camera # [x |-> 0, y |-> 0, z |-> ZoomOne]
    /\ keyEvents > 0
    /\ inflight = 0
    /\ pending = <<>>
    /\ TreeNodes # <<>>
    /\ LoadStatus = "error"

---------------------------------------------------------------------------
(* C25 *)

\* the moves of LoadStatus the loaders are meant to make
StatusMoves ==
    {<<"loading", "parsing">>, <<"parsing", "ready">>,
     <<"parsing", "error">>, <<"loading", "error">>}

\* C25: LoadStatus moves only along loading -> parsing, parsing -> ready,
\* parsing -> error and loading -> error, under every interleaving of the
\* fetch, timer and render callbacks a design file registers: it never
\* returns to "loading" or "parsing" after leaving it, and once "ready" it
\* never changes again.
C25_StatusMoves ==
    [][LoadStatus' # LoadStatus
       => <<LoadStatus, LoadStatus'>> \in StatusMoves]_vars

---------------------------------------------------------------------------
(* C26 *)

\* the canvas shows the loading placeholder
ShowsLoading ==
    \E c \in 1..Len(drawn) :
        /\ drawn[c].op = "fillText"
        /\ drawn[c].text = "Loading directory_map.json..."

\* C26: whenever LoadStatus is "ready" Render never shows the "Loading
\* directory_map.json..." placeholder: in every state reached after a
\* successful parse, also of a document that is null or has no keys, the
\* scene is drawn or a message other than the loading text is shown.
C26_ReadyNotLoading == LoadStatus = "ready" => ~ShowsLoading

---------------------------------------------------------------------------
(* C27 *)

\* a step of the keydown handlers
KeyDownStep == keyEvents' = keyEvents + 1

\* C27: Camera.z is strictly positive in every reachable state: from Init
\* (z = 1) on, under any sequence of key events, z changes only on keydown
\* of up or down while shift is held (times 0.95 or 1.05), the arrow keys
\* without shift change only x or y, by exactly 5, and every keydown is
\* followed by exactly one UpdateRender.
C27_ZoomPositive ==
    [][/\ Camera.z > 0 /\ Camera'.z > 0
       /\ Camera'.z # Camera.z
            => /\ KeyDownStep /\ shiftKey
               /\ Camera'.z \in {zoomTimes(Camera.z, 95),
                                 zoomTimes(Camera.z, 105)}
               /\ Camera'.x = Camera.x /\ Camera'.y = Camera.y
       /\ (KeyDownStep /\ ~shiftKey)
            => /\ Camera'.z = Camera.z
               /\ \/ Camera' = Camera
                  \/ /\ Camera'.y = Camera.y
                     /\ Camera'.x \in {Camera.x + 5, Camera.x - 5}
                  \/ /\ Camera'.x = Camera.x
                     /\ Camera'.y \in {Camera.y + 5, Camera.y - 5}
       /\ KeyDownStep => drawn' = UpdateRender(scene, LoadStatus, Camera')
      ]_vars

\* the camera has been zoomed in by a keydown with shift held
C27_Witness ==
    /\ shiftKey
    /\ keyEvents = 2
    /\ Camera.z = (ZoomOne * 95) \div 100
    /\ drawn[2].x2 = viewWidth(Camera)

---------------------------------------------------------------------------
(* C28 *)

\* a mousemove event: a mouse event that leaves the button as it is
MoveStep == mouseEvents' = mouseEvents + 1 /\ buttonDown' = buttonDown

\* the place of the last mousedown and the camera at that time
LastDown == handlers[Len(handlers)]

\* C28: the mouse drag pans the camera only between press and release:
\* after a mousedown on the canvas at P each mousemove to Q sets Camera.x
\* and Camera.y to their values at the mousedown plus (P - Q); after the
\* button is released, and before any mousedown, mousemove events do not
\* change Camera, for every sequence of mousedown, mousemove and mouseup
\* events.
C28_DragOnlyWhileDown ==
    [][MoveStep =>
         IF buttonDown
         THEN \E e \in Positions :
                /\ Camera'.x = LastDown.c_x + (LastDown.init_x - e.x)
                /\ Camera'.y = LastDown.c_y + (LastDown.init_y - e.y)
                /\ Camera'.z = Camera.z
         ELSE Camera' = Camera]_vars

---------------------------------------------------------------------------
(* C29 *)

\* in layout(n) run from the state st, and in the calls of layout below
\* it, the children of every node are minSpacing apart before the sibling
\* repair, and the repair leaves every node where it is
RECURSIVE SiblingsApart(_, _, _, _)
RECURSIVE SiblingsApartIn(_, _, _, _, _)
SiblingsApart(st, n, yStep, minSpacing) ==
    LET kids == st.nodes[n].children
    IN \/ Len(kids) = 0
       \/ LET st2 == layoutChildrenCartesian(st, kids, 1, yStep, minSpacing)
              st3 == repairSiblings(st2, kids, 1, minSpacing)
          IN /\ SiblingsApartIn(st, kids, 1, yStep, minSpacing)
             /\ \A j \in 1..(Len(kids) - 1) :
                  st2.nodes[kids[j + 1]].x - st2.nodes[kids[j]].x
                      >= minSpacing
             /\ XsOf(st3.nodes) = XsOf(st2.nodes)
SiblingsApartIn(st, kids, k, yStep, minSpacing) ==
    \/ k > Len(kids)
    \/ /\ SiblingsApart(st, kids[k], yStep, minSpacing)
       /\ SiblingsApartIn(layoutCartesian(st, kids[k], yStep, minSpacing),
                          kids, k + 1, yStep, minSpacing)

\* after all roots are laid out, consecutive roots are minSpacing apart
\* and the root repair leaves every node where it is
RootsApart(nodeList) ==
    LET roots == rootsOf(nodeList)
        minSpacing == minSpacingOf(Len(nodeList))
        laid == layoutChildrenCartesian(
                    [nodes |-> nodeList, xCursor |-> 0], roots, 1,
                    yStepOf(maxDepthOf(nodeList)), minSpacing).nodes
        sorted == sortByX(laid, roots, Len(roots))
    IN /\ \A k \in 1..(Len(sorted) - 1) :
            laid[sorted[k + 1]].x - laid[sorted[k]].x >= minSpacing
       /\ XsOf(placeCartesian(nodeList)) = XsOf(laid)

\* every node with children is at the midpoint of its first and last child
Centred(placed) ==
    \A n \in 1..Len(placed) :
        placed[n].children # <<>> =>
            LET kids == placed[n].children
            IN placed[n].x =
                   (placed[kids[1]].x + placed[kids[Len(kids)]].x) \div 2

\* C29: in the Cartesian layout the repair passes never move a node: right
\* after the children of a node are laid out every pair of consecutive
\* siblings, and after all roots are laid out every pair of consecutive
\* roots, already differs in x by at least minSpacing, so every internal
\* node ends at the exact midpoint of its first and last child's x.
C29_RepairIdle ==
    (AfterMakePoster /\ variant = "cartesian" /\ TreeNodes # <<>>) =>
        LET nodeList == builtNodes(DirectoryMap)
        IN /\ SiblingsApartIn([nodes |-> nodeList, xCursor |-> 0],
                              rootsOf(nodeList), 1,
                              yStepOf(maxDepthOf(nodeList)),
                              minSpacingOf(Len(nodeList)))
           /\ RootsApart(nodeList)
           /\ Centred(placeCartesian(nodeList))


(***************************************************************************)
(* The design1 file: a turtle that draws quarter arcs on a grid of cells.  *)
(* Angles are counted in quarter turns, so the arc of turnRight runs from  *)
(* dir - 1 to dir (.5 * (dir - 1) * PI to .5 * dir * PI).  MakePoster runs *)
(* one call at a time: calls holds the calls that are still to run.        *)
(***************************************************************************)

right == "Right"
left == "Left"

\* cellSize = scale / 16, with scale = 400
cellSize == 25

\* var levels = 2 of MakePoster
levels == 2

\* the unit step of a heading; JavaScript's % keeps the sign, so a heading
\* below -4 falls to the default branch, which returns nothing
dirToCord(d) ==
    CASE d + 4 >= 0 /\ (d + 4) % 4 = 0 -> [x |-> 1, y |-> 0]
      [] d + 4 >= 0 /\ (d + 4) % 4 = 1 -> [x |-> 0, y |-> 1]
      [] d + 4 >= 0 /\ (d + 4) % 4 = 2 -> [x |-> -1, y |-> 0]
      [] d + 4 >= 0 /\ (d + 4) % 4 = 3 -> [x |-> 0, y |-> -1]
      [] OTHER -> Undefined

\* the turtle t = [cursor, dir, onThe, Arcs] after hopRight()
hopRight(t) ==
    LET n == dirToCord(t.dir + 1)
    IN [t EXCEPT !.cursor = [x |-> t.cursor.x + n.x, y |-> t.cursor.y + n.y],
                 !.onThe = left]

\* the turtle after hopLeft()
hopLeft(t) ==
    LET n == dirToCord(t.dir - 1)
    IN [t EXCEPT !.cursor = [x |-> t.cursor.x + n.x, y |-> t.cursor.y + n.y],
                 !.onThe = right]

\* the turtle after turnRight(): hop if it is on the right, push the arc
\* from dir - 1 to dir, turn
turnRight(t) ==
    LET h == IF t.onThe = right THEN hopRight(t) ELSE t
    IN [h EXCEPT !.Arcs = Append(h.Arcs, [x |-> h.cursor.x, y |-> h.cursor.y,
                                          start |-> h.dir - 1,
                                          end |-> h.dir]),
                 !.dir = (h.dir + 1) % 4]

\* the turtle after turnLeft(): hop if it is on the left, push the arc from
\* dir to dir + 1, turn back
turnLeft(t) ==
    LET h == IF t.onThe = left THEN hopLeft(t) ELSE t
    IN [h EXCEPT !.Arcs = Append(h.Arcs, [x |-> h.cursor.x, y |-> h.cursor.y,
                                          start |-> h.dir,
                                          end |-> h.dir + 1]),
                 !.dir = (h.dir + 3) % 4]

\* a call of the function fn; level is read by Stem only
Call(fn, level) == [fn |-> fn, level |-> level]

\* the calls in the body of circleRight, Leaf and HalfStem, in order
circleRightBody ==
    << Call("turnRight", 0), Call("turnRight", 0),
       Call("turnRight", 0), Call("turnRight", 0) >>

LeafBody ==
    << Call("turnRight", 0), Call("turnLeft", 0), Call("circleRight", 0),
       Call("turnLeft", 0), Call("circleRight", 0),
       Call("turnLeft", 0), Call("circleRight", 0),
       Call("turnLeft", 0), Call("turnRight", 0), Call("turnLeft", 0) >>

HalfStemBody ==
    << Call("turnRight", 0), Call("turnLeft", 0), Call("circleRight", 0),
       Call("turnLeft", 0), Call("turnRight", 0), Call("turnLeft", 0) >>

\* a Stem that closes with HalfStem alone
StemBodyOneLeaf(level) ==
    IF level # 0
    THEN << Call("HalfStem", 0), Call("Leaf", 0), Call("Stem", level - 1),
            Call("HalfStem", 0) >>
    ELSE << Call("Leaf", 0) >>

\* the calls in the body of Stem(level): if (level) {...} else { Leaf(); }
StemBody(level) ==
    IF level # 0
    THEN << Call("HalfStem", 0), Call("Leaf", 0), Call("Stem", level - 1),
            Call("Leaf", 0), Call("HalfStem", 0) >>
    ELSE << Call("Leaf", 0) >>

\* the calls MakePoster makes after it has set cursor, dir and onThe
MakePosterBody ==
    << Call("MakeBackground", 0), Call("Stem", levels), Call("Stem", levels),
       Call("Stem", levels), Call("Stem", levels) >>

\* the body of a call that only makes calls
bodyOf(c) ==
    CASE c.fn = "circleRight" -> circleRightBody
      [] c.fn = "Leaf" -> LeafBody
      [] c.fn = "HalfStem" -> HalfStemBody
      [] c.fn = "Stem" -> StemBody(c.level)

\* the turtle after the call c has returned, and after the calls of body
\* from the k-th on have; a call has returned (n is a value) before the
\* next one is made
RECURSIVE run(_, _), runAll(_, _, _)
run(t, c) ==
    CASE c.fn = "turnRight" -> turnRight(t)
      [] c.fn = "turnLeft" -> turnLeft(t)
      [] OTHER -> runAll(t, bodyOf(c), 1)

runAll(t, body, k) ==
    IF k > Len(body) THEN t
    ELSE LET n == run(t, body[k])
         IN IF n = n THEN runAll(n, body, k + 1) ELSE n

\* the turtle after Stem(level)
Stem(t, level) == run(t, Call("Stem", level))

\* the squares MakeBackground pushes: column by column, numHigh to a column
backgroundSquares ==
    LET numWide == CanvasWidth \div cellSize
        numHigh == CanvasHeight \div cellSize
        square(x, y) ==
            LET x1 == cellSize * x
                x2 == cellSize * (x + 1)
                y1 == cellSize * y
                y2 == cellSize * (y + 1)
            IN [points |-> << [x |-> x1, y |-> y1], [x |-> x2, y |-> y1],
                              [x |-> x2, y |-> y2], [x |-> x1, y |-> y2] >>]
    IN [k \in 1..(numWide * numHigh) |->
            square((k - 1) \div numHigh, (k - 1) % numHigh)]

\* the variables of the directory poster, which the design1 file leaves
posterVars == <<variant, MaxNodes, MaxLevels, catalogue, DirectoryMap,
                TreeNodes, TreeEdges, LayoutBounds, TruncatedMessage,
                LoadStatus, Camera, shiftKey, keyEvents, drawn, inflight,
                pending, buttonDown, handlers, mouseEvents, started, loads>>

\* the turtle in the variables
turtle == [cursor |-> cursor, dir |-> dir, onThe |-> onThe, Arcs |-> Arcs]

\* the page with the design1 file, as its script has been read: Squares
\* and Arcs are empty, cursor, dir and onThe are not assigned, and the
\* call of MakePoster() is still to run
InitTurtle ==
    /\ variant = "design1"
    /\ MaxNodes = 0
    /\ MaxLevels = 0
    /\ catalogue = {}
    /\ DirectoryMap = JNull
    /\ TreeNodes = <<>>
    /\ TreeEdges = <<>>
    /\ LayoutBounds = [xMin |-> 0, xMax |-> One, yMin |-> 0, yMax |-> One]
    /\ TruncatedMessage = NullMsg
    /\ LoadStatus = "loading"
    /\ Camera = [x |-> 0, y |-> 0, z |-> ZoomOne]
    /\ shiftKey = FALSE
    /\ keyEvents = 0
    /\ buttonDown = FALSE
    /\ handlers = <<>>
    /\ mouseEvents = 0
    /\ drawn = <<>>
    /\ inflight = 0
    /\ pending = <<>>
    /\ started = FALSE
    /\ loads = 0
    /\ Squares = <<>>
    /\ Arcs = <<>>
    /\ cursor = Undefined
    /\ dir = Undefined
    /\ onThe = Undefined
    /\ calls = << Call("MakePoster", 0) >>

\* MakePoster() is entered: it sets cursor, dir and onThe, and its calls
\* are the next to run
EnterMakePoster ==
    /\ calls # <<>>
    /\ Head(calls).fn = "MakePoster"
    /\ cursor' = [x |-> -1, y |-> -1]
    /\ dir' = 3
    /\ onThe' = right
    /\ calls' = MakePosterBody \o Tail(calls)
    /\ UNCHANGED <<Squares, Arcs>>
    /\ UNCHANGED posterVars

\* MakeBackground() runs
MakeBackground ==
    /\ calls # <<>>
    /\ Head(calls).fn = "MakeBackground"
    /\ Squares' = Squares \o backgroundSquares
    /\ calls' = Tail(calls)
    /\ UNCHANGED <<Arcs, cursor, dir, onThe>>
    /\ UNCHANGED posterVars

\* Stem, Leaf, HalfStem or circleRight is entered: the calls of its body
\* are the next to run
EnterCall ==
    /\ calls # <<>>
    /\ Head(calls).fn \in {"Stem", "Leaf", "HalfStem", "circleRight"}
    /\ calls' = bodyOf(Head(calls)) \o Tail(calls)
    /\ UNCHANGED <<Squares, Arcs, cursor, dir, onThe>>
    /\ UNCHANGED posterVars

\* turnRight() or turnLeft() runs
Turn ==
    /\ calls # <<>>
    /\ Head(calls).fn \in {"turnRight", "turnLeft"}
    /\ LET t == run(turtle, Head(calls))
       IN /\ cursor' = t.cursor
          /\ dir' = t.dir
          /\ onThe' = t.onThe
          /\ Arcs' = t.Arcs
    /\ calls' = Tail(calls)
    /\ UNCHANGED Squares
    /\ UNCHANGED posterVars

NextTurtle == EnterMakePoster \/ MakeBackground \/ EnterCall \/ Turn

SpecTurtle == InitTurtle /\ [][NextTurtle]_vars

\* how deep a Stem the check runs from every state of the turtle
MaxStemLevel == 3

\* MakePoster has set the turtle; it has returned
TurtleSet == calls = <<>> \/ Head(calls).fn # "MakePoster"
MakePosterReturned == calls = <<>>

\* the turtle of the variables with no arcs, and after Stem(level)
Fresh == [turtle EXCEPT !.Arcs = <<>>]
AfterStem(level) == Stem(Fresh, level)

\* C30: the design1 turtle draws a closed curve: from any state of the
\* turtle, Stem(level) moves the cursor by the same displacement for every
\* level >= 0 and turns dir by +1 (mod 4); dir stays in 0..3 throughout; and
\* when MakePoster has returned (four Stem(2) from cursor (-1,-1), dir 3,
\* onThe Right) cursor, dir and onThe have their initial values again and
\* Arcs holds 524 arcs
C30_ClosedCurve ==
    TurtleSet =>
        /\ dir \in 0..3
        /\ \A level \in 0..MaxStemLevel :
             /\ AfterStem(level).cursor = AfterStem(0).cursor
             /\ AfterStem(level).dir = (dir + 1) % 4
             /\ AfterStem(level).dir \in 0..3
        /\ MakePosterReturned =>
             /\ cursor = [x |-> -1, y |-> -1]
             /\ dir = 3
             /\ onThe = right
             /\ Len(Arcs) = 524

\* MakePoster has returned and the arcs of its four stems are in Arcs
C30_Witness ==
    /\ MakePosterReturned
    /\ Arcs # <<>>
    /\ Len(Arcs) = 4 * Len(AfterStem(levels).Arcs)

====
